---- MODULE Spec2Model ----
(***************************************************************************)
(* rate-guard: the admission-decision engine.                              *)
(*                                                                         *)
(* The repository holds two sources of the limiters:                       *)
(*   "index"    : src/src/index.js    (limiter bound to a store,           *)
(*                options windowMs / maxRequests / bucketSize / refillRate)*)
(*   "limiters" : src/src/limiters.js (store passed per call, options      *)
(*                windowSize / maxRequests / bucketSize / refillRate /     *)
(*                refillInterval)                                          *)
(* Both are modelled; the variable impl says which class was constructed.  *)
(* The key-value store behind them is the get/set/delete store of          *)
(* src/src/stores/mongo.js; the atomic primitives are those of             *)
(* src/src/stores/memory.js.                                               *)
(*                                                                         *)
(* Time is in milliseconds, as Date.now().                                 *)
(***************************************************************************)
EXTENDS Integers, Sequences, FiniteSets, TLC

VARIABLES
    impl,         \* "index" or "limiters": which source file's class is in use
    maxRequests,  \* this.maxRequests
    windowSize,   \* this.windowSize (limiters.js) / this.windowMs (index.js)
    limiter,      \* "sliding" or "bucket": which limiter class was constructed
    now,          \* the reading of Date.now()
    kv,           \* the store's documents of window records: key -> document
    swHist,       \* per key, the results of the checks made since the key was fresh
    timestamps,   \* MemoryStore.timestamps: key -> array of timestamps
    locks,        \* MemoryStore.locks: key -> whether the key's lock is set
    buckets,      \* MemoryStore.buckets: key -> bucket record
    pc,           \* per concurrent isAllowed call: "start", "set" or "done"
    pend,         \* per concurrent call: the value its store.set is about to write
    res,          \* per concurrent call: the decision it returns
    call,         \* per concurrent call: the operation it runs and its key
    bucketSize,   \* this.bucketSize
    refillRate,   \* this.refillRate, tokens per second
    refillInterval, \* this.refillInterval
    bk,           \* the store's documents of bucket records: key -> document
    tbHist,       \* per key, the results of the bucket checks since the key was fresh
    status,       \* the answer of the last getStatus call
    wasReset,     \* per key, whether reset(key) was called while the key held a record
    mw,           \* what the middleware did with the last request it handled
    conn          \* BaseStore: connected, connectionPromise, and the _connect calls made

cfgVars == <<impl, maxRequests, windowSize, limiter>>

swVars == <<kv, swHist>>

memVars == <<timestamps, locks, buckets>>

concVars == <<pc, pend, res, call>>

tbVars == <<bucketSize, refillRate, refillInterval, bk, tbHist, status>>

ghostVars == <<wasReset>>

mwVars == <<mw>>

connVars == <<conn>>

vars == <<cfgVars, ghostVars, mwVars, connVars, now, swVars, memVars, concVars, tbVars>>

(***************************************************************************)
(* Bounds of the model.                                                    *)
(***************************************************************************)
MaxNow == 6            \* the clock is read up to this instant
MaxCalls == 4          \* checks recorded per key between two resets
MaxStored == 4         \* timestamps held per key by the in-memory store
NProcs == 3            \* concurrent isAllowed calls on one key
MaxBucketCalls == 3    \* bucket checks recorded per key between two resets
MaxBucketTicks == 3    \* quarter seconds the clock advances in the bucket specification

Keys == {"a"}
Impls == {"index", "limiters"}
MaxRequestsOptions == {1, 2}
WindowSizeOptions == {2, 3}
BucketSizeOptions == {1, 2}
RefillRateOptions == {1, 2}           \* tokens per second
RefillIntervalOptions == {500, 1000}  \* options.refillInterval of limiters.js
Costs == {-1, 0, 1, 2, 3}             \* the cost argument of a bucket check

MsPerSec == 1000

(***************************************************************************)
(* Arithmetic of the source.                                               *)
(***************************************************************************)
Min(a, b) == IF a <= b THEN a ELSE b

Max(a, b) == IF a >= b THEN a ELSE b

\* Math.ceil(a / b) for b > 0
CeilDiv(a, b) == -((-a) \div b)

\* Math.min(...seq) of a non-empty sequence
SeqMin(s) == CHOOSE m \in {s[i] : i \in 1..Len(s)} : \A i \in 1..Len(s) : m <= s[i]

(***************************************************************************)
(* The key-value store (src/src/stores/mongo.js).  A document is           *)
(* [present, value, hasExpiry, expiresAt]; get answers null for a missing  *)
(* or expired document.                                                    *)
(***************************************************************************)
NoDoc == [present |-> FALSE, value |-> <<>>, hasExpiry |-> FALSE, expiresAt |-> 0]

\* what get returns: [found, value]
StoreGet(s, k, t) ==
    IF ~s[k].present THEN [found |-> FALSE, value |-> <<>>]
    ELSE IF s[k].hasExpiry /\ s[k].expiresAt < t THEN [found |-> FALSE, value |-> <<>>]
    ELSE [found |-> TRUE, value |-> s[k].value]

\* a set that never writes expiresAt
StoreSetMutNoExpiry(s, k, v, ttlMs, t) ==
    [s EXCEPT ![k] = [present |-> TRUE, value |-> v, hasExpiry |-> FALSE, expiresAt |-> 0]]

\* updateOne({_id: key}, {$set: doc}, {upsert: true}): expiresAt is only set when
\* ttlMs is truthy; a $set without it leaves the field of an existing document
StoreSet(s, k, v, ttlMs, t) ==
    [s EXCEPT ![k] = [present   |-> TRUE,
                      value     |-> v,
                      hasExpiry |-> IF ttlMs # 0 THEN TRUE ELSE (@.present /\ @.hasExpiry),
                      expiresAt |-> IF ttlMs # 0 THEN t + ttlMs
                                    ELSE IF @.present /\ @.hasExpiry THEN @.expiresAt ELSE 0]]

\* deleteOne({_id: key})
StoreDeleteMutKeeps(s, k) == s

StoreDeleteMutAll(s, k) == [j \in DOMAIN s |-> NoDoc]

StoreDelete(s, k) == [s EXCEPT ![k] = NoDoc]

(***************************************************************************)
(* Sliding window, src/src/index.js.                                       *)
(***************************************************************************)
\* the filter of lines 61-64: timestamp > windowStart
IndexRetainedMutGe(ts, windowStart) == SelectSeq(ts, LAMBDA t : t >= windowStart)

IndexRetained(ts, windowStart) == SelectSeq(ts, LAMBDA t : t > windowStart)

\* line 68: currentCount >= this.maxRequests
IndexOverLimitMutGt(count, limit) == count > limit

IndexOverLimit(count, limit) == count >= limit

\* line 85: this.maxRequests - currentCount - 1
IndexRemainingMutOffByOne(limit, count) == limit - count

IndexRemaining(limit, count) == limit - count - 1

\* isAllowed from the value read (got = what store.get returned) to the decision:
\* [allowed, remaining, resetAt, retryAfter, oldest, write, value]
IndexSlidingDecide(got, t, W, M) ==
    LET data  == IF got.found THEN got.value ELSE <<>>
        ts    == IndexRetained(data, t - W)
        count == Len(ts)
    IN  IF IndexOverLimit(count, M)
        THEN [allowed |-> FALSE, remaining |-> 0,
              resetAt |-> SeqMin(ts) + W, hasResetAt |-> TRUE,
              retryAfter |-> 0, hasRetryAfter |-> FALSE,
              oldest |-> SeqMin(ts), write |-> FALSE, value |-> ts]
        ELSE [allowed |-> TRUE, remaining |-> IndexRemaining(M, count),
              resetAt |-> t + W, hasResetAt |-> TRUE,
              retryAfter |-> 0, hasRetryAfter |-> FALSE,
              oldest |-> 0, write |-> TRUE, value |-> Append(ts, t)]

(***************************************************************************)
(* Sliding window, src/src/limiters.js.                                    *)
(***************************************************************************)
\* the filter of lines 35-38: timestamp > windowStart && timestamp <= now
LimitersRetainedMutGe(ts, windowStart, t) ==
    SelectSeq(ts, LAMBDA x : x >= windowStart /\ x <= t)

LimitersRetained(ts, windowStart, t) ==
    SelectSeq(ts, LAMBDA x : x > windowStart /\ x <= t)

\* line 42: requestCount >= this.maxRequests
LimitersOverLimitMutGt(count, limit) == count > limit

LimitersOverLimit(count, limit) == count >= limit

LimitersSlidingDecide(got, t, W, M) ==
    LET data  == IF got.found THEN got.value ELSE <<>>
        valid == LimitersRetained(data, t - W, t)
        count == Len(valid)
    IN  IF LimitersOverLimit(count, M)
        THEN [allowed |-> FALSE, remaining |-> 0,
              resetAt |-> 0, hasResetAt |-> FALSE,
              retryAfter |-> Max(0, CeilDiv(SeqMin(valid) + W - t, MsPerSec)),
              hasRetryAfter |-> TRUE,
              oldest |-> SeqMin(valid), write |-> FALSE, value |-> valid]
        ELSE [allowed |-> TRUE, remaining |-> M - Len(Append(valid, t)),
              resetAt |-> 0, hasResetAt |-> FALSE,
              retryAfter |-> 0, hasRetryAfter |-> TRUE,
              oldest |-> 0, write |-> TRUE, value |-> Append(valid, t)]

SlidingDecide(got, t, W, M) ==
    IF impl = "index" THEN IndexSlidingDecide(got, t, W, M)
    ELSE LimitersSlidingDecide(got, t, W, M)

(***************************************************************************)
(* The parts of the state a specification does not use.                    *)
(***************************************************************************)
Procs == 1..NProcs

NoResult == [allowed |-> FALSE, remaining |-> 0]

NoCall == [op |-> "isAllowed", key |-> "a"]

ConcIdle ==
    /\ pc = [p \in Procs |-> "done"]
    /\ pend = [p \in Procs |-> <<>>]
    /\ res = [p \in Procs |-> NoResult]
    /\ call = [p \in Procs |-> NoCall]

NoBucket == [present |-> FALSE, tokens |-> 0, lastRefill |-> 0]

MemIdle ==
    /\ timestamps = [k \in Keys |-> <<>>]
    /\ locks = [k \in Keys |-> FALSE]
    /\ buckets = [k \in Keys |-> NoBucket]

\* base.js 6-10: not connected, no connection attempt in flight
NoConnection == [connected |-> FALSE, promise |-> "none", invoked |-> 0, failed |-> 0]

NoRequest ==
    [handled |-> FALSE, framework |-> "express", skipped |-> FALSE, hasHandler |-> FALSE,
     outcome |-> "none", nextCalls |-> 0, nextErrors |-> 0, handlerCalls |-> 0,
     limiterCalls |-> 0, headers |-> FALSE, status |-> 0, error |-> ""]

NoStatus == [asked |-> FALSE, at |-> 0, tokens |-> 0]

BucketIdle ==
    /\ bucketSize = 1
    /\ refillRate = 1
    /\ refillInterval = MsPerSec
    /\ bk = [k \in Keys |-> NoDoc]
    /\ tbHist = [k \in Keys |-> <<>>]
    /\ status = NoStatus

(***************************************************************************)
(* Sequential callers of the sliding-window limiter: each check runs from  *)
(* its store.get to its store.set before the next call starts.             *)
(***************************************************************************)
InitSW ==
    /\ impl \in Impls
    /\ limiter = "sliding"
    /\ wasReset = [k \in Keys |-> FALSE]
    /\ mw = NoRequest
    /\ conn = NoConnection
    /\ maxRequests \in MaxRequestsOptions
    /\ windowSize \in WindowSizeOptions
    /\ now = 0
    /\ kv = [k \in Keys |-> NoDoc]
    /\ swHist = [k \in Keys |-> <<>>]
    /\ MemIdle
    /\ ConcIdle
    /\ BucketIdle

\* SlidingWindowLimiter.isAllowed(key)
SWCheck(k) ==
    /\ Len(swHist[k]) < MaxCalls
    /\ LET r == SlidingDecide(StoreGet(kv, k, now), now, windowSize, maxRequests)
       IN  /\ kv' = IF r.write THEN StoreSet(kv, k, r.value, windowSize, now) ELSE kv
           /\ swHist' = [swHist EXCEPT ![k] =
                            Append(@, [at |-> now, allowed |-> r.allowed,
                                       remaining |-> r.remaining, oldest |-> r.oldest,
                                       resetAt |-> r.resetAt, hasResetAt |-> r.hasResetAt,
                                       retryAfter |-> r.retryAfter,
                                       hasRetryAfter |-> r.hasRetryAfter])]
    /\ UNCHANGED <<cfgVars, ghostVars, mwVars, connVars, now, memVars, concVars, tbVars>>

\* SlidingWindowLimiter.reset(key)
SWReset(k) ==
    /\ kv' = StoreDelete(kv, k)
    /\ swHist' = [swHist EXCEPT ![k] = <<>>]
    /\ UNCHANGED <<cfgVars, ghostVars, mwVars, connVars, now, memVars, concVars, tbVars>>

\* the clock advances
Tick ==
    /\ now < MaxNow
    /\ now' = now + 1
    /\ UNCHANGED <<cfgVars, ghostVars, mwVars, connVars, swVars, memVars, concVars, tbVars>>

NextSW ==
    \/ \E k \in Keys : SWCheck(k)
    \/ \E k \in Keys : SWReset(k)
    \/ Tick

SpecSW == InitSW /\ [][NextSW]_vars

(***************************************************************************)
(* C2-C4: the sliding-window limiter under sequential callers.             *)
(***************************************************************************)
\* the calls before call i of history h that were admitted inside the window of call i
AdmittedInWindow(h, i) ==
    {j \in 1..(i - 1) : h[j].allowed /\ h[j].at > h[i].at - windowSize}

\* C2: on a fresh key, while the calls made so far lie within one window, each of the
\* first maxRequests sequential checks is allowed and the i-th returns
\* remaining = maxRequests - i.
C2_WithinLimitAllowed ==
    \A k \in Keys : \A i \in 1..Len(swHist[k]) :
        (i <= maxRequests /\ swHist[k][i].at - swHist[k][1].at < windowSize)
            => /\ swHist[k][i].allowed
               /\ swHist[k][i].remaining = maxRequests - i

C2_Witness ==
    \E k \in Keys :
        /\ maxRequests = 2
        /\ Len(swHist[k]) >= 2
        /\ swHist[k][2].at > swHist[k][1].at
        /\ swHist[k][2].at - swHist[k][1].at < windowSize
        /\ swHist[k][1].remaining = 1
        /\ swHist[k][2].allowed
        /\ swHist[k][2].remaining = 0

\* C3: once maxRequests checks have been admitted on a key inside the window of a
\* further check, that check is denied with remaining = 0.
C3_OverLimitDenied ==
    \A k \in Keys : \A i \in 1..Len(swHist[k]) :
        Cardinality(AdmittedInWindow(swHist[k], i)) >= maxRequests
            => /\ ~swHist[k][i].allowed
               /\ swHist[k][i].remaining = 0

C3_Witness ==
    \E k \in Keys : \E i \in 1..Len(swHist[k]) :
        /\ Cardinality(AdmittedInWindow(swHist[k], i)) >= maxRequests
        /\ swHist[k][i].at > swHist[k][1].at
        /\ ~swHist[k][i].allowed
        /\ swHist[k][i].remaining = 0

\* C4: when a check was denied with earliest retained timestamp t0, the next check
\* on the key, made at any instant >= t0 + windowSize (the instant t0 + windowSize
\* included), is allowed.
C4_WindowSlides ==
    \A k \in Keys : \A i \in 2..Len(swHist[k]) :
        (/\ ~swHist[k][i - 1].allowed
         /\ swHist[k][i].at >= swHist[k][i - 1].oldest + windowSize)
            => swHist[k][i].allowed

C4_Witness ==
    \E k \in Keys : \E i \in 2..Len(swHist[k]) :
        /\ ~swHist[k][i - 1].allowed
        /\ swHist[k][i].at = swHist[k][i - 1].oldest + windowSize
        /\ swHist[k][i].allowed

(***************************************************************************)
(* The atomic window primitive of the in-memory store                      *)
(* (src/src/stores/memory.js, atomicIncrement), called by serialised       *)
(* callers: the lock is taken and released inside the call.                *)
(***************************************************************************)
\* lines 181-189: filter ts > windowStart, push now, store
MemIncrementedMutNoFilter(ts, t, windowStart) == Append(ts, t)

MemIncremented(ts, t, windowStart) ==
    Append(SelectSeq(ts, LAMBDA x : x > windowStart), t)

InitAtomicSW ==
    /\ impl = "index"
    /\ limiter = "sliding"
    /\ wasReset = [k \in Keys |-> FALSE]
    /\ mw = NoRequest
    /\ conn = NoConnection
    /\ maxRequests \in MaxRequestsOptions
    /\ windowSize \in WindowSizeOptions
    /\ now = 0
    /\ kv = [k \in Keys |-> NoDoc]
    /\ swHist = [k \in Keys |-> <<>>]
    /\ MemIdle
    /\ ConcIdle
    /\ BucketIdle

\* store.atomicIncrement(key, now, now - windowSize, windowSize)
AtomicIncrement(k) ==
    /\ Len(timestamps[k]) < MaxStored
    /\ timestamps' = [timestamps EXCEPT ![k] = MemIncremented(@, now, now - windowSize)]
    /\ UNCHANGED <<cfgVars, ghostVars, mwVars, connVars, now, swVars, locks, buckets, concVars, tbVars>>

\* store.clear(key)
MemClear(k) ==
    /\ timestamps' = [timestamps EXCEPT ![k] = <<>>]
    /\ UNCHANGED <<cfgVars, ghostVars, mwVars, connVars, now, swVars, locks, buckets, concVars, tbVars>>

NextAtomicSW ==
    \/ \E k \in Keys : AtomicIncrement(k)
    \/ \E k \in Keys : MemClear(k)
    \/ Tick

SpecAtomicSW == InitAtomicSW /\ [][NextAtomicSW]_vars

\* the timestamps of ts inside the window that ends at t
InWindow(ts, t) == {i \in 1..Len(ts) : ts[i] > t - windowSize /\ ts[i] <= t}

\* C5: with serialised checks (sequential isAllowed callers, or callers of the atomic
\* window primitive), the number of stored timestamps of a key inside the current
\* window never exceeds maxRequests.
C5_StoredWithinLimit ==
    \A k \in Keys :
        /\ Cardinality(InWindow(StoreGet(kv, k, now).value, now)) <= maxRequests
        /\ Cardinality(InWindow(timestamps[k], now)) <= maxRequests

(***************************************************************************)
(* Concurrent callers of SlidingWindowLimiter.isAllowed on one key         *)
(* (Promise.all of NProcs calls).  A call suspends at `await store.get`    *)
(* and at `await store.set`; between the two it runs without interruption. *)
(* The store reads and writes of different calls interleave freely.        *)
(***************************************************************************)
ConcKey == CHOOSE k \in Keys : TRUE

InitConc ==
    /\ impl \in Impls
    /\ limiter = "sliding"
    /\ wasReset = [k \in Keys |-> FALSE]
    /\ mw = NoRequest
    /\ conn = NoConnection
    /\ maxRequests \in 1..NProcs
    /\ windowSize \in WindowSizeOptions
    /\ now = 0
    /\ kv = [k \in Keys |-> NoDoc]
    /\ swHist = [k \in Keys |-> <<>>]
    /\ MemIdle
    /\ pc = [p \in Procs |-> "start"]
    /\ pend = [p \in Procs |-> <<>>]
    /\ res = [p \in Procs |-> NoResult]
    /\ call = [p \in Procs |-> NoCall]
    /\ BucketIdle

\* store.get answers; the call filters, decides and, when it admits, issues store.set
ConcGet(p) ==
    /\ pc[p] = "start"
    /\ LET r == SlidingDecide(StoreGet(kv, ConcKey, now), now, windowSize, maxRequests)
       IN  /\ pc' = [pc EXCEPT ![p] = IF r.write THEN "set" ELSE "done"]
           /\ pend' = [pend EXCEPT ![p] = IF r.write THEN r.value ELSE <<>>]
           /\ res' = [res EXCEPT ![p] = [allowed |-> r.allowed, remaining |-> r.remaining]]
    /\ UNCHANGED <<cfgVars, ghostVars, mwVars, connVars, now, swVars, memVars, call, tbVars>>

\* store.set takes effect and the call returns its decision
ConcSet(p) ==
    /\ pc[p] = "set"
    /\ kv' = StoreSet(kv, ConcKey, pend[p], windowSize, now)
    /\ pc' = [pc EXCEPT ![p] = "done"]
    /\ UNCHANGED <<cfgVars, ghostVars, mwVars, connVars, now, swHist, memVars, pend, res, call, tbVars>>

NextConc ==
    \/ \E p \in Procs : ConcGet(p)
    \/ \E p \in Procs : ConcSet(p)

SpecConc == InitConc /\ [][NextConc]_vars

AllDone == \A p \in Procs : pc[p] = "done"

Admitted == {p \in Procs : res[p].allowed}

\* C1: when maxRequests + K checks are fired concurrently on one fresh key within one
\* window (here NProcs calls, maxRequests in 1..NProcs), exactly maxRequests of them
\* return allowed = true and exactly K return allowed = false.
C1_ExactAdmission ==
    AllDone => /\ Cardinality(Admitted) = maxRequests
               /\ Cardinality(Procs \ Admitted) = NProcs - maxRequests

\* C18: the read-modify-write of isAllowed is not atomic: as long as no store.set of
\* the concurrent checks has taken effect, every check whose store.get has answered
\* read the empty record and is admitted as the first request of the window
\* (remaining = maxRequests - 1), so there is an interleaving in which
\* N > maxRequests checks on one empty key are all admitted (C18_Witness).
C18_ReadersOfEmptyAdmitted ==
    ~kv[ConcKey].present =>
        \A p \in Procs :
            pc[p] # "start" => /\ res[p].allowed
                               /\ res[p].remaining = maxRequests - 1
                               /\ pend[p] = <<now>>

\* all NProcs > maxRequests checks have returned, each read the empty record (it wrote
\* back its own timestamp only) and each was admitted
C18_Witness ==
    /\ NProcs > maxRequests
    /\ AllDone
    /\ \A p \in Procs : res[p].allowed /\ pend[p] = <<now>>
    /\ kv[ConcKey].value = <<now>>

\* C31: no admitted timestamp is lost in the read-modify-write path: once the
\* concurrent checks of the key have all returned, the stored record holds one
\* in-window timestamp for every check that returned allowed = true.
C31_NoAdmittedTimestampLost ==
    AllDone =>
        Cardinality(InWindow(StoreGet(kv, ConcKey, now).value, now)) = Cardinality(Admitted)

(***************************************************************************)
(* Token bucket, src/src/index.js.  A bucket record is                     *)
(* [tokens, lastRefill]; costs are whole numbers, so balances are too.     *)
(***************************************************************************)
\* line 101: this.refillInterval = 1000 / this.refillRate (exact for RefillRateOptions)
IndexRefillInterval(rate) == MsPerSec \div rate

\* line 122: Math.floor(timePassed / this.refillInterval)
IndexTokensToAddMutNone(timePassed, interval) == 0

IndexTokensToAdd(timePassed, interval) == timePassed \div interval

\* line 132: data.tokens >= tokensRequired
IndexEnoughMutGt(tokens, cost) == tokens > cost

IndexEnough(tokens, cost) == tokens >= cost

\* isAllowed from the value read to the decision:
\* [allowed, remaining, resetAt, retryAfter, refilled, value]
IndexBucketDecide(got, t, cost, B, interval) ==
    LET data       == IF got.found THEN got.value ELSE [tokens |-> B, lastRefill |-> t]
        timePassed == Max(0, t - data.lastRefill)
        tokensToAdd == IndexTokensToAdd(timePassed, interval)
        refilled   == Min(B, data.tokens + tokensToAdd)
        lastRefill == IF tokensToAdd > 0 THEN t ELSE data.lastRefill
    IN  IF IndexEnough(refilled, cost)
        THEN [allowed |-> TRUE, remaining |-> refilled - cost,
              resetAt |-> t + (B - (refilled - cost)) * interval, hasResetAt |-> TRUE,
              retryAfter |-> 0, hasRetryAfter |-> FALSE,
              refilled |-> refilled,
              value |-> [tokens |-> refilled - cost, lastRefill |-> lastRefill]]
        ELSE [allowed |-> FALSE, remaining |-> refilled,
              resetAt |-> t + (cost - refilled) * interval, hasResetAt |-> TRUE,
              retryAfter |-> 0, hasRetryAfter |-> FALSE,
              refilled |-> refilled,
              value |-> [tokens |-> refilled, lastRefill |-> lastRefill]]

(***************************************************************************)
(* Token bucket, src/src/limiters.js.  this.refillInterval is stored by    *)
(* the constructor and read nowhere.                                       *)
(***************************************************************************)
\* line 116: Math.floor((timePassed / 1000) * this.refillRate)
LimitersTokensToAdd(timePassed, rate) == (timePassed * rate) \div MsPerSec

\* line 129: bucket.tokens < tokens
LimitersShortMutLe(tokens, cost) == tokens <= cost

LimitersShort(tokens, cost) == tokens < cost

LimitersBucketDecide(got, t, cost, B, rate) ==
    LET bucket     == IF got.found THEN got.value ELSE [tokens |-> B, lastRefill |-> t]
        timePassed == Max(0, t - bucket.lastRefill)
        tokensToAdd == LimitersTokensToAdd(timePassed, rate)
        lastRefill == IF tokensToAdd > 0 THEN t ELSE bucket.lastRefill
        refilled   == Max(0, Min(B, bucket.tokens + tokensToAdd))
    IN  IF LimitersShort(refilled, cost)
        THEN [allowed |-> FALSE, remaining |-> refilled,
              resetAt |-> 0, hasResetAt |-> FALSE,
              retryAfter |-> CeilDiv(cost - refilled, rate), hasRetryAfter |-> TRUE,
              refilled |-> refilled,
              value |-> [tokens |-> refilled, lastRefill |-> lastRefill]]
        ELSE [allowed |-> TRUE, remaining |-> refilled - cost,
              resetAt |-> 0, hasResetAt |-> FALSE,
              retryAfter |-> 0, hasRetryAfter |-> TRUE,
              refilled |-> refilled,
              value |-> [tokens |-> refilled - cost, lastRefill |-> lastRefill]]

BucketDecide(got, t, cost) ==
    IF impl = "index" THEN IndexBucketDecide(got, t, cost, bucketSize, refillInterval)
    ELSE LimitersBucketDecide(got, t, cost, bucketSize, refillRate)

(***************************************************************************)
(* Sequential callers of the token-bucket limiter.                         *)
(***************************************************************************)
\* the clock step of this specification: a quarter of a second
Quarter == MsPerSec \div 4

InitTB ==
    /\ impl \in Impls
    /\ limiter = "bucket"
    /\ wasReset = [k \in Keys |-> FALSE]
    /\ mw = NoRequest
    /\ conn = NoConnection
    /\ maxRequests = 1
    /\ windowSize = 1
    /\ now = 0
    /\ kv = [k \in Keys |-> NoDoc]
    /\ swHist = [k \in Keys |-> <<>>]
    /\ MemIdle
    /\ ConcIdle
    /\ bucketSize \in BucketSizeOptions
    /\ refillRate \in RefillRateOptions
    /\ refillInterval \in IF impl = "index" THEN {IndexRefillInterval(refillRate)}
                           ELSE RefillIntervalOptions
    /\ bk = [k \in Keys |-> NoDoc]
    /\ tbHist = [k \in Keys |-> <<>>]
    /\ status = NoStatus

\* TokenBucketLimiter.isAllowed(key, cost); the returned object has no reason property
TBCheck(k, cost) ==
    /\ Len(tbHist[k]) < MaxBucketCalls
    /\ LET r == BucketDecide(StoreGet(bk, k, now), now, cost)
       IN  /\ bk' = StoreSet(bk, k, r.value, 0, now)
           /\ tbHist' = [tbHist EXCEPT ![k] =
                            Append(@, [at |-> now, cost |-> cost, allowed |-> r.allowed,
                                       remaining |-> r.remaining, hasReason |-> FALSE,
                                       refilled |-> r.refilled,
                                       stored |-> r.value.tokens,
                                       lastRefill |-> r.value.lastRefill,
                                       resetAt |-> r.resetAt, hasResetAt |-> r.hasResetAt,
                                       retryAfter |-> r.retryAfter,
                                       hasRetryAfter |-> r.hasRetryAfter])]
    /\ UNCHANGED <<cfgVars, ghostVars, mwVars, connVars, now, swVars, memVars, concVars,
                   bucketSize, refillRate, refillInterval, status>>

\* TokenBucketLimiter.reset(key)
TBReset(k) ==
    /\ bk' = StoreDelete(bk, k)
    /\ tbHist' = [tbHist EXCEPT ![k] = <<>>]
    /\ UNCHANGED <<cfgVars, ghostVars, mwVars, connVars, now, swVars, memVars, concVars,
                   bucketSize, refillRate, refillInterval, status>>

TickTB ==
    /\ now < MaxBucketTicks * Quarter
    /\ now' = now + Quarter
    /\ UNCHANGED <<cfgVars, ghostVars, mwVars, connVars, swVars, memVars, concVars, tbVars>>

NextTB ==
    \/ \E k \in Keys : \E cost \in Costs : TBCheck(k, cost)
    \/ \E k \in Keys : TBReset(k)
    \/ TickTB

SpecTB == InitTB /\ [][NextTB]_vars

(***************************************************************************)
(* C6-C10: the token-bucket limiter under sequential callers.              *)
(***************************************************************************)
\* the first i calls of history h are cost-1 calls made at the instant of the first
UnitBurst(h, i) == \A j \in 1..i : h[j].cost = 1 /\ h[j].at = h[1].at

\* C6: on a never-seen key, bucketSize consecutive cost-1 checks with no time elapsing
\* are allowed with remaining bucketSize-1, ..., 0, and the next one is denied with
\* remaining = 0.
C6_FullBucketBurst ==
    \A k \in Keys : \A i \in 1..Len(tbHist[k]) :
        UnitBurst(tbHist[k], i) =>
            /\ (i <= bucketSize) =>
                    (tbHist[k][i].allowed /\ tbHist[k][i].remaining = bucketSize - i)
            /\ (i = bucketSize + 1) =>
                    (~tbHist[k][i].allowed /\ tbHist[k][i].remaining = 0)

C6_Witness ==
    \E k \in Keys :
        /\ bucketSize = 2
        /\ Len(tbHist[k]) = 3
        /\ UnitBurst(tbHist[k], 3)
        /\ tbHist[k][2].allowed
        /\ tbHist[k][2].remaining = 0
        /\ ~tbHist[k][3].allowed

\* C7: when a check left the balance at 0 and the next checks come one refillInterval
\* (or more) later, all at one instant and of cost 1, the first
\* min(bucketSize, refillRate) of them are allowed.
C7_RefillAfterInterval ==
    \A k \in Keys : \A i \in 1..Len(tbHist[k]) : \A j \in (i + 1)..Len(tbHist[k]) :
        (/\ tbHist[k][i].stored = 0
         /\ tbHist[k][i + 1].at >= tbHist[k][i].at + refillInterval
         /\ \A m \in (i + 1)..j :
                tbHist[k][m].cost = 1 /\ tbHist[k][m].at = tbHist[k][i + 1].at
         /\ j - i <= Min(bucketSize, refillRate))
            => tbHist[k][j].allowed

\* C8: a check whose cost is greater than bucketSize is denied and carries a reason
\* saying that the request exceeds the capacity.
C8_OverCapacityReason ==
    \A k \in Keys : \A i \in 1..Len(tbHist[k]) :
        tbHist[k][i].cost > bucketSize
            => (~tbHist[k][i].allowed /\ tbHist[k][i].hasReason)

\* C9: the tokens value persisted for a key is always within 0..bucketSize.
C9_TokensWithinBounds ==
    \A k \in Keys :
        bk[k].present => (0 <= bk[k].value.tokens /\ bk[k].value.tokens <= bucketSize)

\* C10: a check with cost <= 0 is charged as cost 1: it is allowed only when a token
\* is available, and when allowed it lowers the persisted balance by exactly 1.
C10_NonPositiveCostChargedOne ==
    \A k \in Keys : \A i \in 1..Len(tbHist[k]) :
        tbHist[k][i].cost <= 0
            => /\ tbHist[k][i].allowed <=> (tbHist[k][i].refilled >= 1)
               /\ tbHist[k][i].allowed =>
                    (tbHist[k][i].stored = tbHist[k][i].refilled - 1)

(***************************************************************************)
(* Stored values of any shape.  Another writer of the store (the tests use *)
(* store.set(key, 'not-an-array')) can leave any JSON value under a key.   *)
(* A raw value is [shape, ts]:                                             *)
(*   "null"   : null                                                       *)
(*   "string" : a non-empty string (a truthy primitive)                    *)
(*   "object" : an object without a timestamps array, e.g. {foo: 'bar'}    *)
(*   "record" : {timestamps: ts}, the record index.js writes               *)
(*   "array"  : ts itself, the record limiters.js writes                   *)
(* An entry of ts is [kind, n]: a number n, NaN, the string 'invalid',     *)
(* null or undefined.                                                      *)
(***************************************************************************)
StartNow == 4          \* Date.now() when the raw-value specifications start

Raw(shape, ts) == [shape |-> shape, ts |-> ts]

Num(n) == [kind |-> "number", n |-> n]

NonNumber(kind) == [kind |-> kind, n |-> 0]

InvalidEntries == {NonNumber("NaN"), NonNumber("string"), NonNumber("null"),
                   NonNumber("undefined")}

\* Number(ts): [nan, n]
ToNumber(e) ==
    IF e.kind = "number" THEN [nan |-> FALSE, n |-> e.n]
    ELSE IF e.kind = "null" THEN [nan |-> FALSE, n |-> 0]
    ELSE [nan |-> TRUE, n |-> 0]

\* index.js lines 48-58: what data.timestamps is before the filter, or the TypeError
\* of data.timestamps = [] on a primitive (a class body is strict-mode code)
IndexLoad(got) ==
    IF ~got.found \/ got.value.shape = "null" THEN [threw |-> FALSE, ts |-> <<>>]
    ELSE IF got.value.shape = "string" THEN [threw |-> TRUE, ts |-> <<>>]
    ELSE IF got.value.shape = "record" THEN [threw |-> FALSE, ts |-> got.value.ts]
    ELSE [threw |-> FALSE, ts |-> <<>>]

\* index.js lines 61-64 on one entry
IndexKeeps(e, windowStart) ==
    /\ ~ToNumber(e).nan
    /\ IndexRetained(<<ToNumber(e).n>>, windowStart) # <<>>

IndexSlidingDecideRaw(got, t, W, M) ==
    LET loaded == IndexLoad(got)
        ts     == SelectSeq(loaded.ts, LAMBDA e : IndexKeeps(e, t - W))
        count  == Len(ts)
    IN  IF loaded.threw
        THEN [threw |-> TRUE, allowed |-> FALSE, remaining |-> 0,
              write |-> FALSE, value |-> Raw("null", <<>>)]
        ELSE IF IndexOverLimit(count, M)
        THEN [threw |-> FALSE, allowed |-> FALSE, remaining |-> 0,
              write |-> FALSE, value |-> Raw("record", ts)]
        ELSE [threw |-> FALSE, allowed |-> TRUE, remaining |-> IndexRemaining(M, count),
              write |-> TRUE, value |-> Raw("record", Append(ts, Num(t)))]

\* limiters.js lines 26-31: await store.get(key) || [], then the Array.isArray test
LimitersLoad(got) ==
    IF got.found /\ got.value.shape = "array" THEN got.value.ts ELSE <<>>

\* limiters.js lines 35-38 on one entry
LimitersKeeps(e, windowStart, t) ==
    /\ ~ToNumber(e).nan
    /\ LimitersRetained(<<ToNumber(e).n>>, windowStart, t) # <<>>

LimitersSlidingDecideRaw(got, t, W, M) ==
    LET valid == SelectSeq(LimitersLoad(got), LAMBDA e : LimitersKeeps(e, t - W, t))
        count == Len(valid)
    IN  IF LimitersOverLimit(count, M)
        THEN [threw |-> FALSE, allowed |-> FALSE, remaining |-> 0,
              write |-> FALSE, value |-> Raw("array", valid)]
        ELSE [threw |-> FALSE, allowed |-> TRUE,
              remaining |-> M - Len(Append(valid, Num(t))),
              write |-> TRUE, value |-> Raw("array", Append(valid, Num(t)))]

SlidingDecideRaw(got, t, W, M) ==
    IF impl = "index" THEN IndexSlidingDecideRaw(got, t, W, M)
    ELSE LimitersSlidingDecideRaw(got, t, W, M)

\* the entries another writer may leave at instant t: numbers in and out of the
\* window of width W, and the invalid ones
RawEntries(t, W) == {Num(t), Num(t - 1), Num(t - W)} \cup InvalidEntries

RawArrays(t, W) ==
    {<<>>} \cup {<<e>> : e \in RawEntries(t, W)}
           \cup {<<e, f>> : e \in RawEntries(t, W), f \in InvalidEntries}
           \cup {<<e, f>> : e \in InvalidEntries, f \in RawEntries(t, W)}

\* the values another writer may leave: every shape; the array of entries is in the
\* shape of the record the limiter in use writes
RawValues(t, W) ==
    {Raw("null", <<>>), Raw("string", <<>>), Raw("object", <<>>)}
        \cup {Raw(IF impl = "index" THEN "record" ELSE "array", ts) : ts \in RawArrays(t, W)}

\* what the claim counts as usage: the numbers of the record's array inside the window
ValidInWindow(got, t, W) ==
    IF got.found /\ got.value.shape \in {"record", "array"}
    THEN Cardinality({i \in 1..Len(got.value.ts) :
                         /\ got.value.ts[i].kind = "number"
                         /\ got.value.ts[i].n > t - W
                         /\ got.value.ts[i].n <= t})
    ELSE 0

InitRawSW ==
    /\ impl \in Impls
    /\ limiter = "sliding"
    /\ wasReset = [k \in Keys |-> FALSE]
    /\ mw = NoRequest
    /\ conn = NoConnection
    /\ maxRequests \in MaxRequestsOptions
    /\ windowSize \in WindowSizeOptions
    /\ now = StartNow
    /\ kv = [k \in Keys |-> NoDoc]
    /\ swHist = [k \in Keys |-> <<>>]
    /\ MemIdle
    /\ ConcIdle
    /\ BucketIdle

\* another writer's store.set(key, v)
RawSet(k, v) ==
    /\ kv' = StoreSet(kv, k, v, 0, now)
    /\ UNCHANGED <<cfgVars, ghostVars, mwVars, connVars, now, swHist, memVars, concVars, tbVars>>

\* SlidingWindowLimiter.isAllowed(key) on whatever the store holds; swHist keeps the
\* outcome of the last check only
RawSWCheck(k) ==
    /\ LET got == StoreGet(kv, k, now)
           r   == SlidingDecideRaw(got, now, windowSize, maxRequests)
       IN  /\ kv' = IF r.write THEN StoreSet(kv, k, r.value, windowSize, now) ELSE kv
           /\ swHist' = [swHist EXCEPT ![k] =
                            <<[at |-> now, threw |-> r.threw, allowed |-> r.allowed,
                               remaining |-> r.remaining,
                               valid |-> ValidInWindow(got, now, windowSize)]>>]
    /\ UNCHANGED <<cfgVars, ghostVars, mwVars, connVars, now, memVars, concVars, tbVars>>

NextRawSW ==
    \/ \E k \in Keys : \E v \in RawValues(now, windowSize) : RawSet(k, v)
    \/ \E k \in Keys : RawSWCheck(k)
    \/ Tick

SpecRawSW == InitRawSW /\ [][NextRawSW]_vars

\* C11: whatever value the store holds for a key (absent, null, a string, an object
\* without a timestamps array, an array with NaN, non-numeric or null entries), the
\* sliding-window check does not throw, and when the record has no valid in-window
\* timestamp the call is allowed with remaining = maxRequests - 1.
C11_CorruptedWindowHeals ==
    \A k \in Keys :
        swHist[k] # <<>> =>
            /\ ~swHist[k][1].threw
            /\ swHist[k][1].valid = 0 =>
                   swHist[k][1].allowed /\ swHist[k][1].remaining = maxRequests - 1

(***************************************************************************)
(* Stored bucket values of any shape: null, a string, or an object whose   *)
(* tokens and lastRefill are entries as above ("undefined" = the property  *)
(* is missing).                                                            *)
(***************************************************************************)
RawBucket(shape, tokens, lastRefill) ==
    [shape |-> shape, tokens |-> tokens, lastRefill |-> lastRefill]

\* typeof x === 'number' && !isNaN(x)
IsValidNumber(e) == e.kind = "number"

\* index.js lines 108-118: the record the refill starts from
IndexBucketLoad(got, t) ==
    IF ~got.found \/ got.value.shape # "object" \/ ~IsValidNumber(got.value.tokens)
    THEN [found |-> FALSE, value |-> <<>>]
    ELSE [found |-> TRUE,
          value |-> [tokens |-> got.value.tokens.n,
                     lastRefill |-> IF IsValidNumber(got.value.lastRefill)
                                    THEN got.value.lastRefill.n ELSE t]]

IndexBucketDecideRaw(got, t, cost, B, interval) ==
    LET r == IndexBucketDecide(IndexBucketLoad(got, t), t, cost, B, interval)
    IN  [allowed |-> r.allowed, remainingNaN |-> FALSE, remaining |-> r.remaining,
         value |-> RawBucket("object", Num(r.value.tokens), Num(r.value.lastRefill))]

\* limiters.js line 102: typeof bucket.tokens !== 'number' lets NaN through
LimitersReinitialises(got) ==
    \/ ~got.found
    \/ got.value.shape # "object"
    \/ got.value.tokens.kind \notin {"number", "NaN"}

\* limiters.js lines 102-112
LimitersBucketLoad(got, t) ==
    IF LimitersReinitialises(got)
    THEN [found |-> FALSE, value |-> <<>>]
    ELSE [found |-> TRUE,
          value |-> [tokens |-> got.value.tokens.n,
                     lastRefill |-> IF IsValidNumber(got.value.lastRefill)
                                    THEN got.value.lastRefill.n ELSE t]]

\* with tokens = NaN: Math.min, Math.max and the subtraction give NaN, NaN < tokens
\* is false, so the call consumes: allowed, remaining = Math.floor(NaN)
LimitersBucketDecideRaw(got, t, cost, B, rate) ==
    LET loaded == LimitersBucketLoad(got, t)
        r      == LimitersBucketDecide(loaded, t, cost, B, rate)
    IN  IF loaded.found /\ got.value.tokens.kind = "NaN"
        THEN [allowed |-> TRUE, remainingNaN |-> TRUE, remaining |-> 0,
              value |-> RawBucket("object", NonNumber("NaN"), Num(r.value.lastRefill))]
        ELSE [allowed |-> r.allowed, remainingNaN |-> FALSE, remaining |-> r.remaining,
              value |-> RawBucket("object", Num(r.value.tokens), Num(r.value.lastRefill))]

BucketDecideRaw(got, t, cost) ==
    IF impl = "index" THEN IndexBucketDecideRaw(got, t, cost, bucketSize, refillInterval)
    ELSE LimitersBucketDecideRaw(got, t, cost, bucketSize, refillRate)

\* the values another writer may leave at instant t for a bucket of size B
RawBuckets(t, B) ==
    {RawBucket("null", NonNumber("null"), NonNumber("null")),
     RawBucket("string", NonNumber("undefined"), NonNumber("undefined"))}
        \cup {RawBucket("object", tk, lr) :
                 tk \in {Num(n) : n \in 0..B} \cup InvalidEntries,
                 lr \in {Num(t)} \cup InvalidEntries}

\* the claim's precondition: no record, or one whose tokens is not a valid number
TokensInvalid(got) ==
    \/ ~got.found
    \/ got.value.shape # "object"
    \/ got.value.tokens.kind # "number"

\* another writer's store.set(key, v)
RawBucketSet(k, v) ==
    /\ bk' = StoreSet(bk, k, v, 0, now)
    /\ UNCHANGED <<cfgVars, ghostVars, mwVars, connVars, now, swVars, memVars, concVars,
                   bucketSize, refillRate, refillInterval, tbHist, status>>

\* TokenBucketLimiter.isAllowed(key, cost) on whatever the store holds; tbHist keeps
\* the outcome of the last check only
RawTBCheck(k, cost) ==
    /\ LET got == StoreGet(bk, k, now)
           r   == BucketDecideRaw(got, now, cost)
       IN  /\ bk' = StoreSet(bk, k, r.value, 0, now)
           /\ tbHist' = [tbHist EXCEPT ![k] =
                            <<[at |-> now, cost |-> cost, invalid |-> TokensInvalid(got),
                               allowed |-> r.allowed, remainingNaN |-> r.remainingNaN,
                               remaining |-> r.remaining,
                               storedValid |-> /\ IsValidNumber(r.value.tokens)
                                               /\ IsValidNumber(r.value.lastRefill)]>>]
    /\ UNCHANGED <<cfgVars, ghostVars, mwVars, connVars, now, swVars, memVars, concVars,
                   bucketSize, refillRate, refillInterval, status>>

NextRawTB ==
    \/ \E k \in Keys : \E v \in RawBuckets(now, bucketSize) : RawBucketSet(k, v)
    \/ \E k \in Keys : \E cost \in Costs : RawTBCheck(k, cost)
    \/ TickTB

SpecRawTB == InitTB /\ [][NextRawTB]_vars

\* C12: when the stored bucket record is absent, null, or has tokens missing,
\* non-numeric or NaN, a check of cost c <= bucketSize is allowed, returns the number
\* remaining = bucketSize - c, and persists a record whose tokens and lastRefill are
\* valid numbers.
C12_CorruptedBucketIsFull ==
    \A k \in Keys :
        (tbHist[k] # <<>> /\ tbHist[k][1].invalid /\ tbHist[k][1].cost <= bucketSize) =>
            /\ tbHist[k][1].allowed
            /\ ~tbHist[k][1].remainingNaN
            /\ tbHist[k][1].remaining = bucketSize - tbHist[k][1].cost
            /\ tbHist[k][1].storedValid

(***************************************************************************)
(* Either limiter under sequential callers; the history variable wasReset  *)
(* records the resets of keys that held a record.                          *)
(***************************************************************************)
MaxResetCalls == 2     \* checks recorded per key between two resets, this specification

\* limiter.reset(key) of the limiter constructed
LimiterReset(k) ==
    /\ IF limiter = "sliding"
       THEN /\ kv' = StoreDelete(kv, k)
            /\ swHist' = [swHist EXCEPT ![k] = <<>>]
            /\ UNCHANGED <<bk, tbHist>>
       ELSE /\ bk' = StoreDelete(bk, k)
            /\ tbHist' = [tbHist EXCEPT ![k] = <<>>]
            /\ UNCHANGED <<kv, swHist>>
    /\ wasReset' = [wasReset EXCEPT ![k] =
                        @ \/ (IF limiter = "sliding" THEN kv[k] ELSE bk[k]).present]
    /\ UNCHANGED <<cfgVars, mwVars, connVars, now, memVars, concVars,
                   bucketSize, refillRate, refillInterval, status>>

NextLimiters ==
    \/ \E k \in Keys : limiter = "sliding" /\ Len(swHist[k]) < MaxResetCalls /\ SWCheck(k)
    \/ \E k \in Keys : \E cost \in Costs :
          limiter = "bucket" /\ Len(tbHist[k]) < MaxResetCalls /\ TBCheck(k, cost)
    \/ \E k \in Keys : LimiterReset(k)
    \/ limiter = "sliding" /\ Tick
    \/ limiter = "bucket" /\ TickTB

SpecLimiters == (InitSW \/ InitTB) /\ [][NextLimiters]_vars

\* the documents of a store nobody has written to
NeverSeen == [k \in Keys |-> NoDoc]

\* C13: for both limiters and whatever was done on the key before, reset(key) leaves
\* the key absent from the store, and the check that follows returns the decision
\* (allowed, remaining) and persists the record that a check on a never-seen key
\* gives at the same instant.
C13_ResetIsFresh ==
    [][\A k \in Keys :
          /\ wasReset'[k] /\ swHist'[k] = <<>> /\ tbHist'[k] = <<>> =>
                 /\ ~StoreGet(kv', k, now').found
                 /\ ~StoreGet(bk', k, now').found
          /\ wasReset[k] /\ swHist[k] = <<>> /\ swHist'[k] # <<>> =>
                 LET fresh == SlidingDecide(StoreGet(NeverSeen, k, now), now,
                                            windowSize, maxRequests)
                 IN  /\ swHist'[k][1].allowed = fresh.allowed
                     /\ swHist'[k][1].remaining = fresh.remaining
                     /\ kv'[k] = StoreSet(NeverSeen, k, fresh.value, windowSize, now)[k]
          /\ wasReset[k] /\ tbHist[k] = <<>> /\ tbHist'[k] # <<>> =>
                 LET fresh == BucketDecide(StoreGet(NeverSeen, k, now), now,
                                           tbHist'[k][1].cost)
                 IN  /\ tbHist'[k][1].allowed = fresh.allowed
                     /\ tbHist'[k][1].remaining = fresh.remaining
                     /\ bk'[k] = StoreSet(NeverSeen, k, fresh.value, 0, now)[k]
      ]_vars

\* a sliding-window key that held a record, was reset, and was checked again
C13_Witness ==
    \E k \in Keys :
        /\ limiter = "sliding"
        /\ wasReset[k]
        /\ Len(swHist[k]) = 1
        /\ swHist[k][1].at > 0
        /\ swHist[k][1].allowed

\* a bucket key that held a record, was reset, and was checked again
C13_WitnessBucket ==
    \E k \in Keys :
        /\ limiter = "bucket"
        /\ wasReset[k]
        /\ Len(tbHist[k]) = 1
        /\ tbHist[k][1].at > 0
        /\ tbHist[k][1].allowed

(***************************************************************************)
(* Store operations that fail.  store.get, store.set and store.delete are  *)
(* awaited by the limiters outside any try block, so a rejected operation  *)
(* rejects the call.  A failed operation leaves the documents as they were.*)
(***************************************************************************)
FailPoints == {"none", "get", "set"}

\* how the call ends, given the store operation that was rejected ("none": all of
\* them resolved): there is no catch around the awaits
CallOutcomeMutFailOpen(failed) == "decision"

CallOutcome(failed) == IF failed = "none" THEN "decision" ELSE "error"

\* SlidingWindowLimiter.isAllowed(key) with the store operation failAt rejected;
\* swHist keeps the outcome of the last call only
FailSWCheck(k, failAt) ==
    /\ limiter = "sliding"
    /\ LET r       == SlidingDecide(StoreGet(kv, k, now), now, windowSize, maxRequests)
           outcome == CallOutcome(failAt)
       IN  /\ failAt = "set" => r.write
           /\ kv' = IF failAt = "none" /\ r.write
                    THEN StoreSet(kv, k, r.value, windowSize, now) ELSE kv
           /\ swHist' = [swHist EXCEPT ![k] =
                            <<[op |-> "isAllowed", failed |-> failAt, outcome |-> outcome,
                               allowed |-> outcome = "decision" /\ r.allowed,
                               remaining |-> IF outcome = "decision" THEN r.remaining
                                             ELSE 0]>>]
    /\ UNCHANGED <<cfgVars, ghostVars, mwVars, connVars, now, memVars, concVars, tbVars>>

\* TokenBucketLimiter.isAllowed(key, cost) with the store operation failAt rejected
FailTBCheck(k, cost, failAt) ==
    /\ limiter = "bucket"
    /\ LET r       == BucketDecide(StoreGet(bk, k, now), now, cost)
           outcome == CallOutcome(failAt)
       IN  /\ bk' = IF failAt = "none" THEN StoreSet(bk, k, r.value, 0, now) ELSE bk
           /\ tbHist' = [tbHist EXCEPT ![k] =
                            <<[op |-> "isAllowed", failed |-> failAt, outcome |-> outcome,
                               allowed |-> outcome = "decision" /\ r.allowed,
                               remaining |-> IF outcome = "decision" THEN r.remaining
                                             ELSE 0]>>]
    /\ UNCHANGED <<cfgVars, ghostVars, mwVars, connVars, now, swVars, memVars, concVars,
                   bucketSize, refillRate, refillInterval, status>>

\* limiter.reset(key) with store.delete resolved (fails = FALSE) or rejected
FailReset(k, fails) ==
    /\ LET failed == IF fails THEN "delete" ELSE "none"
           entry  == <<[op |-> "reset", failed |-> failed,
                        outcome |-> IF CallOutcome(failed) = "error" THEN "error"
                                    ELSE "returned",
                        allowed |-> FALSE, remaining |-> 0]>>
       IN  IF limiter = "sliding"
           THEN /\ kv' = IF fails THEN kv ELSE StoreDelete(kv, k)
                /\ swHist' = [swHist EXCEPT ![k] = entry]
                /\ UNCHANGED <<bk, tbHist>>
           ELSE /\ bk' = IF fails THEN bk ELSE StoreDelete(bk, k)
                /\ tbHist' = [tbHist EXCEPT ![k] = entry]
                /\ UNCHANGED <<kv, swHist>>
    /\ UNCHANGED <<cfgVars, ghostVars, mwVars, connVars, now, memVars, concVars,
                   bucketSize, refillRate, refillInterval, status>>

NextFail ==
    \/ \E k \in Keys : \E failAt \in FailPoints : FailSWCheck(k, failAt)
    \/ \E k \in Keys : \E cost \in Costs : \E failAt \in FailPoints :
          FailTBCheck(k, cost, failAt)
    \/ \E k \in Keys : \E fails \in BOOLEAN : FailReset(k, fails)
    \/ limiter = "sliding" /\ Tick
    \/ limiter = "bucket" /\ TickTB

SpecFail == (InitSW \/ InitTB) /\ [][NextFail]_vars

\* the outcome of the last call on key k
LastCall(k) == IF limiter = "sliding" THEN swHist[k] ELSE tbHist[k]

\* C14: for both limiters, when a store operation (get, set, delete) of a check or a
\* reset fails, the call ends with the error: it never returns an allowed or denied
\* decision (or returns normally from reset) in place of the error.
C14_StoreErrorPropagates ==
    \A k \in Keys :
        (LastCall(k) # <<>> /\ LastCall(k)[1].failed # "none") =>
            /\ LastCall(k)[1].outcome = "error"
            /\ ~LastCall(k)[1].allowed

\* a check that had decided to admit and whose store.set was rejected
C14_Witness ==
    \E k \in Keys :
        /\ LastCall(k) # <<>>
        /\ LastCall(k)[1].op = "isAllowed"
        /\ LastCall(k)[1].failed = "set"
        /\ LastCall(k)[1].outcome = "error"

(***************************************************************************)
(* The atomic primitives of the in-memory store, step by step              *)
(* (src/src/stores/memory.js 165-229).  A call is at                       *)
(*   "acquire" : about to test while (this.locks.get(key))                 *)
(*   "sleep"   : inside the loop, awaiting setTimeout(resolve, 1)          *)
(*   "locked"  : this.locks.set(key, true) is done; the caller's           *)
(*               await this._acquireLock(key) has not resumed yet          *)
(*   "done"    : the try block and the finally have run                    *)
(* The lock test and the set are one synchronous run, and so is the try    *)
(* block with its finally: other calls run only at the awaits.             *)
(***************************************************************************)
LockKeys == {"a", "b"}

LockOps == {"atomicIncrement", "atomicTokenBucket"}

\* line 166: this.locks.get(key)
LockHeldMutAnyKey(l, k) == \E j \in DOMAIN l : l[j]

LockHeldMutNever(l, k) == FALSE

LockHeld(l, k) == l[k]

\* line 191: { count: timestamps.length }, after the push
MemCountMutBeforePush(ts) == Len(ts) - 1

MemCount(ts) == Len(ts)

\* tokens are counted in thousandths, so that (elapsed / 1000) * refillRate is exact
Thousandths(n) == n * MsPerSec

\* lines 199-226: [allowed, bucket] from the bucket record b of the key
MemBucketUpdated(b, t, B, rate, cost) ==
    LET bucket   == IF b.present THEN b
                    ELSE [present |-> TRUE, tokens |-> Thousandths(B), lastRefill |-> t]
        elapsed  == t - bucket.lastRefill
        refilled == Min(Thousandths(B), bucket.tokens + elapsed * rate)
        allowed  == refilled >= Thousandths(cost)
    IN  [allowed |-> allowed,
         bucket  |-> [present |-> TRUE,
                      tokens |-> IF allowed THEN refilled - Thousandths(cost) ELSE refilled,
                      lastRefill |-> t]]

NoAtomicResult == [allowed |-> FALSE, count |-> 0, tokens |-> 0]

\* NProcs calls are fired together, each an atomicIncrement(key, now, now - windowSize,
\* windowSize) or an atomicTokenBucket(key, now, bucketSize, refillRate, 1)
InitLock ==
    /\ impl = "index"
    /\ limiter = "sliding"
    /\ wasReset = [k \in Keys |-> FALSE]
    /\ mw = NoRequest
    /\ conn = NoConnection
    /\ maxRequests = 1
    /\ windowSize \in WindowSizeOptions
    /\ now = 0
    /\ kv = [k \in Keys |-> NoDoc]
    /\ swHist = [k \in Keys |-> <<>>]
    /\ timestamps = [k \in LockKeys |-> <<>>]
    /\ locks = [k \in LockKeys |-> FALSE]
    /\ buckets = [k \in LockKeys |-> NoBucket]
    /\ pc = [p \in Procs |-> "acquire"]
    /\ pend = [p \in Procs |-> <<>>]
    /\ res = [p \in Procs |-> NoAtomicResult]
    /\ call \in [Procs -> [op : LockOps, key : LockKeys]]
    /\ bucketSize \in BucketSizeOptions
    /\ refillRate = 1
    /\ refillInterval = MsPerSec
    /\ bk = [k \in Keys |-> NoDoc]
    /\ tbHist = [k \in Keys |-> <<>>]
    /\ status = NoStatus

\* _acquireLock: the loop test; the lock is taken in the same run when it is free
Acquire(p) ==
    /\ pc[p] = "acquire"
    /\ IF LockHeld(locks, call[p].key)
       THEN /\ pc' = [pc EXCEPT ![p] = "sleep"]
            /\ UNCHANGED locks
       ELSE /\ pc' = [pc EXCEPT ![p] = "locked"]
            /\ locks' = [locks EXCEPT ![call[p].key] = TRUE]
    /\ UNCHANGED <<cfgVars, ghostVars, mwVars, connVars, now, swVars, timestamps, buckets,
                   pend, res, call, tbVars>>

\* the timer of the loop body fires
Wake(p) ==
    /\ pc[p] = "sleep"
    /\ pc' = [pc EXCEPT ![p] = "acquire"]
    /\ UNCHANGED <<cfgVars, ghostVars, mwVars, connVars, now, swVars, memVars, pend, res, call, tbVars>>

\* the try block and the finally of atomicIncrement / atomicTokenBucket
Critical(p) ==
    /\ pc[p] = "locked"
    /\ LET k == call[p].key
       IN  /\ IF call[p].op = "atomicIncrement"
              THEN LET ts == MemIncremented(timestamps[k], now, now - windowSize)
                   IN  /\ timestamps' = [timestamps EXCEPT ![k] = ts]
                       /\ res' = [res EXCEPT ![p] =
                                     [allowed |-> TRUE, count |-> MemCount(ts),
                                      tokens |-> 0]]
                       /\ UNCHANGED buckets
              ELSE LET r == MemBucketUpdated(buckets[k], now, bucketSize, refillRate, 1)
                   IN  /\ buckets' = [buckets EXCEPT ![k] = r.bucket]
                       /\ res' = [res EXCEPT ![p] =
                                     [allowed |-> r.allowed, count |-> 0,
                                      tokens |-> r.bucket.tokens]]
                       /\ UNCHANGED timestamps
           /\ locks' = [locks EXCEPT ![k] = FALSE]
    /\ pc' = [pc EXCEPT ![p] = "done"]
    /\ UNCHANGED <<cfgVars, ghostVars, mwVars, connVars, now, swVars, pend, call, tbVars>>

NextLock ==
    \/ \E p \in Procs : Acquire(p)
    \/ \E p \in Procs : Wake(p)
    \/ \E p \in Procs : Critical(p)

SpecLock == InitLock /\ [][NextLock]_vars

\* the calls of operation op on key k that have returned
Returned(op, k) == {p \in Procs : pc[p] = "done" /\ call[p] = [op |-> op, key |-> k]}

\* C15: concurrent calls of the atomic primitives on one key give the results of
\* some sequential order: the atomicIncrement calls returned so far on a fresh key
\* have the counts 1..n, each once, and the cost-1 atomicTokenBucket calls returned so
\* far are, in some order, the calls of a sequential run on a full bucket.
C15_AtomicCallsSerialise ==
    \A k \in LockKeys :
        /\ LET D == Returned("atomicIncrement", k)
           IN  /\ {res[p].count : p \in D} = 1..Cardinality(D)
               /\ \A p, q \in D : res[p].count = res[q].count => p = q
               /\ Len(timestamps[k]) >= Cardinality(D)
        /\ LET E == Returned("atomicTokenBucket", k)
               n == Cardinality(E)
           IN  \E f \in [1..n -> E] :
                   /\ \A i, j \in 1..n : f[i] = f[j] => i = j
                   /\ \A i \in 1..n :
                         /\ res[f[i]].allowed = (i <= bucketSize)
                         /\ res[f[i]].tokens = Thousandths(Max(bucketSize - i, 0))

\* all NProcs calls were atomicIncrement on one key and have returned
C15_Witness ==
    \E k \in LockKeys : Returned("atomicIncrement", k) = Procs

\* all NProcs calls were atomicTokenBucket on one key and have returned
C15_WitnessBucket ==
    \E k \in LockKeys : Returned("atomicTokenBucket", k) = Procs

\* the calls that hold the lock of key k
Holders(k) == {p \in Procs : pc[p] = "locked" /\ call[p].key = k}

\* C16: in every interleaving of concurrent atomicIncrement / atomicTokenBucket
\* callers, at most one caller at a time holds the lock of a given key.
C16_OneHolderPerKey ==
    \A k \in LockKeys :
        /\ Cardinality(Holders(k)) <= 1
        /\ Holders(k) # {} => locks[k]

\* one caller holds the lock of a key while another caller of that key waits
C16_Witness ==
    \E k \in LockKeys : \E p, q \in Procs :
        /\ p \in Holders(k)
        /\ call[q].key = k
        /\ pc[q] = "sleep"

\* C17: the lock is per key: a caller whose key's lock is free takes it at once,
\* whatever other keys' locks are held; it is made to wait only by its own key's lock.
C17_LockIsPerKey ==
    [][\A p \in Procs :
          (pc[p] = "acquire" /\ pc'[p] # "acquire") =>
              IF locks[call[p].key] THEN pc'[p] = "sleep" ELSE pc'[p] = "locked"
      ]_vars

\* the locks of two keys are held at the same time by two callers
C17_Witness ==
    \E p, q \in Procs :
        /\ pc[p] = "locked" /\ pc[q] = "locked"
        /\ call[p].key # call[q].key

(***************************************************************************)
(* TokenBucketLimiter.getStatus(key).  Neither source of the limiter has   *)
(* the method; it is modelled from the specification: it loads the bucket  *)
(* record, applies the refill arithmetic of the limiter in use and returns *)
(* the balance, persisting nothing.                                        *)
(***************************************************************************)
\* the documents after getStatus(key) projected the balance tokens at instant t
StatusPersistsMutSaves(s, k, tokens, t) ==
    StoreSet(s, k, [tokens |-> tokens, lastRefill |-> t], 0, t)

StatusPersists(s, k, tokens, t) == s

\* the projected balance: a missing record is a full bucket
ProjectedTokens(got, t) ==
    IF ~got.found THEN bucketSize
    ELSE LET timePassed == Max(0, t - got.value.lastRefill)
             tokensToAdd == IF impl = "index"
                            THEN IndexTokensToAdd(timePassed, refillInterval)
                            ELSE LimitersTokensToAdd(timePassed, refillRate)
         IN  Min(bucketSize, got.value.tokens + tokensToAdd)

\* limiter.getStatus(key)
GetStatus(k) ==
    /\ LET tokens == ProjectedTokens(StoreGet(bk, k, now), now)
       IN  /\ status' = [asked |-> TRUE, at |-> now, tokens |-> tokens]
           /\ bk' = StatusPersists(bk, k, tokens, now)
    /\ UNCHANGED <<cfgVars, ghostVars, mwVars, connVars, now, swVars, memVars, concVars,
                   bucketSize, refillRate, refillInterval, tbHist>>

NextStatus ==
    \/ \E k \in Keys : \E cost \in {c \in Costs : c >= 1} :
          Len(tbHist[k]) < MaxResetCalls /\ TBCheck(k, cost)
    \/ \E k \in Keys : TBReset(k)
    \/ \E k \in Keys : GetStatus(k)
    \/ TickTB

SpecStatus == InitTB /\ [][NextStatus]_vars

\* C19: getStatus(key) returns the projected current balance (the balance a check at
\* the same instant would start from, after refill) and leaves the store as it was;
\* for a key with no record it reports tokens = bucketSize.
C19_StatusHasNoEffect ==
    [][status' # status =>
          /\ bk' = bk
          /\ tbHist' = tbHist
          /\ \A k \in Keys :
                /\ status'.tokens = BucketDecide(StoreGet(bk, k, now), now, 1).refilled
                /\ ~StoreGet(bk, k, now).found => status'.tokens = bucketSize
      ]_vars

\* getStatus was asked after the key had been drained and some refill was due
C19_Witness ==
    \E k \in Keys :
        /\ status.asked
        /\ status.at = now
        /\ bk[k].present
        /\ status.tokens > bk[k].value.tokens

\* getStatus was asked for a key that has no record
C19_WitnessNewKey ==
    \E k \in Keys :
        /\ status.asked
        /\ status.at = now
        /\ ~bk[k].present
        /\ tbHist[k] = <<>>
        /\ status.tokens = bucketSize

(***************************************************************************)
(* Two identity keys under one sliding-window limiter and one store.  The  *)
(* store addresses a document by the key itself (mongo.js: _id: key;       *)
(* redis.js _key: prefix + key + a fixed suffix, one-to-one in the key).   *)
(***************************************************************************)
IdentityKeys == {"a", "b"}

InitKeys ==
    /\ impl \in Impls
    /\ limiter = "sliding"
    /\ wasReset = [k \in Keys |-> FALSE]
    /\ mw = NoRequest
    /\ conn = NoConnection
    /\ maxRequests \in MaxRequestsOptions
    /\ windowSize \in WindowSizeOptions
    /\ now = 0
    /\ kv = [k \in IdentityKeys |-> NoDoc]
    /\ swHist = [k \in IdentityKeys |-> <<>>]
    /\ MemIdle
    /\ ConcIdle
    /\ BucketIdle

NextKeys ==
    \/ \E k \in IdentityKeys : Len(swHist[k]) < MaxResetCalls /\ SWCheck(k)
    \/ \E k \in IdentityKeys : SWReset(k)
    \/ Tick

SpecKeys == InitKeys /\ [][NextKeys]_vars

\* C20: quotas of distinct keys are independent: a step that is not a call on key b
\* (a check or reset on another key, a clock tick) leaves the record stored for b as
\* it was, and the decision of a check on b is determined by the checks made on b
\* since its last reset, whatever was done on the other key.
C20_KeysIndependent ==
    [][\A b \in IdentityKeys :
          /\ swHist'[b] = swHist[b] => kv'[b] = kv[b]
          /\ Len(swHist'[b]) = Len(swHist[b]) + 1 =>
                 LET h == swHist'[b]
                     i == Len(h)
                 IN  /\ h[i].allowed = (Cardinality(AdmittedInWindow(h, i)) < maxRequests)
                     /\ h[i].allowed =>
                            h[i].remaining = maxRequests - Cardinality(AdmittedInWindow(h, i)) - 1
      ]_vars

\* one key has been checked up to a denial, and the other key is admitted after that
C20_Witness ==
    \E a, b \in IdentityKeys :
        /\ a # b
        /\ swHist[a] # <<>>
        /\ ~swHist[a][Len(swHist[a])].allowed
        /\ swHist[b] # <<>>
        /\ swHist[b][1].allowed
        /\ swHist[b][1].at >= swHist[a][Len(swHist[a])].at
        /\ kv[a].present /\ kv[b].present

(***************************************************************************)
(* The middleware (src/src/middleware.js).  express() and koa() build the  *)
(* handler of one request; the handler awaits skip, the key generator and  *)
(* checkLimit, which ends in this.limiter.tryAcquire(key, limits).  No     *)
(* limiter under src/ defines tryAcquire: it is modelled as the            *)
(* sliding-window check with the configured limits.  mw records what the   *)
(* handler did with the last request.                                      *)
(***************************************************************************)
Frameworks == {"express", "koa"}

\* this.limiter.tryAcquire(key, effectiveLimits)
TryAcquire(got, t, W, M) == SlidingDecide(got, t, W, M)

\* lines 86, 127: if (await this.skip(req))
MwSkipsMutNever(skipResult) == FALSE

MwSkips(skipResult) == skipResult

\* lines 96, 139: if (!result.allowed)
MwRejectsMutNever(allowed) == FALSE

MwRejects(allowed) == ~allowed

\* the handler, from the request to its last effect.  skip is what this.skip(req)
\* answers, hasHandler whether onRateLimited is configured, fails whether the
\* limiter's call rejects.  express forwards a caught error with next(error), koa
\* answers it with ctx.throw(500).
MwRequest(fw, k, skip, hasHandler, fails) ==
    LET r == TryAcquire(StoreGet(kv, k, now), now, windowSize, maxRequests)
        base == [NoRequest EXCEPT !.handled = TRUE, !.framework = fw,
                                  !.skipped = skip, !.hasHandler = hasHandler]
    IN  IF MwSkips(skip)
        THEN /\ mw' = [base EXCEPT !.outcome = "skipped", !.nextCalls = 1]
             /\ UNCHANGED kv
        ELSE IF fails
        THEN /\ mw' = [base EXCEPT !.outcome = "error", !.limiterCalls = 1,
                                   !.nextErrors = IF fw = "express" THEN 1 ELSE 0,
                                   !.status = IF fw = "koa" THEN 500 ELSE 0]
             /\ UNCHANGED kv
        ELSE /\ kv' = IF r.write THEN StoreSet(kv, k, r.value, windowSize, now) ELSE kv
             /\ mw' = IF MwRejects(r.allowed)
                      THEN IF hasHandler
                           THEN [base EXCEPT !.outcome = "denied", !.limiterCalls = 1,
                                             !.headers = TRUE, !.handlerCalls = 1]
                           ELSE [base EXCEPT !.outcome = "denied", !.limiterCalls = 1,
                                             !.headers = TRUE, !.status = 429,
                                             !.error = "Too Many Requests"]
                      ELSE [base EXCEPT !.outcome = IF r.allowed THEN "allowed"
                                                    ELSE "denied",
                                        !.limiterCalls = 1, !.headers = TRUE,
                                        !.nextCalls = 1]

MwHandle(fw, k, skip, hasHandler, fails) ==
    /\ MwRequest(fw, k, skip, hasHandler, fails)
    /\ UNCHANGED <<cfgVars, ghostVars, connVars, now, swHist, memVars, concVars, tbVars>>

NextMw ==
    \/ \E fw \in Frameworks : \E k \in Keys : \E skip, hasHandler, fails \in BOOLEAN :
          MwHandle(fw, k, skip, hasHandler, fails)
    \/ Tick

SpecMw == InitSW /\ [][NextMw]_vars

\* C21: in the Express middleware, for a request that is not skipped: when the limiter
\* allows it, next() is called exactly once and no 429 is sent; when the limiter
\* denies it, the onRateLimited handler is invoked if one is configured, otherwise
\* status 429 with error 'Too Many Requests' is sent, and the middleware does not
\* call next().
C21_ExpressAllowsOrRejects ==
    (mw.handled /\ mw.framework = "express" /\ ~mw.skipped) =>
        /\ mw.outcome = "allowed" =>
               mw.nextCalls = 1 /\ mw.status = 0 /\ mw.handlerCalls = 0
        /\ mw.outcome = "denied" =>
               /\ mw.nextCalls = 0
               /\ IF mw.hasHandler
                  THEN mw.handlerCalls = 1 /\ mw.status = 0
                  ELSE mw.status = 429 /\ mw.error = "Too Many Requests"

\* a request over the limit was answered 429 by the Express handler
C21_Witness ==
    /\ mw.handled /\ mw.framework = "express" /\ ~mw.skipped
    /\ mw.outcome = "denied" /\ ~mw.hasHandler
    /\ mw.status = 429
    /\ \E k \in Keys : Len(kv[k].value) = maxRequests

\* C22: when skip answers true for a request, next() is called and neither the
\* limiter nor the store is touched: the documents of every key stay as they were,
\* no rate-limit header is set and no 429 is produced, however many requests are
\* skipped.
C22_SkippedTouchesNothing ==
    [][(mw'.handled /\ mw'.skipped) =>
          /\ kv' = kv
          /\ mw'.nextCalls = 1
          /\ mw'.limiterCalls = 0
          /\ ~mw'.headers
          /\ mw'.status = 0
          /\ mw'.handlerCalls = 0
      ]_vars

\* a request was skipped while its key was at the limit
C22_Witness ==
    /\ mw.handled /\ mw.skipped /\ mw.nextCalls = 1
    /\ \E k \in Keys :
          /\ StoreGet(kv, k, now).found
          /\ ~SlidingDecide(StoreGet(kv, k, now), now, windowSize, maxRequests).allowed

\* the instants of the calls of key k admitted before call i and inside its window
AdmittedBefore(k, i) ==
    {swHist[k][j].at : j \in {j \in 1..(i - 1) :
        swHist[k][j].allowed /\ swHist[k][j].at > swHist[k][i].at - windowSize}}

\* C24: a denied sliding-window check reports resetAt = the earliest retained
\* in-window timestamp + windowSize, the instant that timestamp leaves the window.
C24_DeniedResetAt ==
    \A k \in Keys : \A i \in 1..Len(swHist[k]) :
        ~swHist[k][i].allowed =>
            /\ swHist[k][i].hasResetAt
            /\ \E t \in AdmittedBefore(k, i) :
                  /\ \A u \in AdmittedBefore(k, i) : t <= u
                  /\ swHist[k][i].resetAt = t + windowSize

(***************************************************************************)
(* C25-C26: the decision of a token-bucket check on the refilled balance.  *)
(***************************************************************************)
\* whole tokens earned in elapsed milliseconds at refillRate tokens per second
Earned(elapsed) == (Max(0, elapsed) * refillRate) \div MsPerSec

\* the balance call i of key k decides on: the record left by call i - 1 (a full
\* bucket for the first call) plus the tokens earned since its lastRefill
RefilledBalance(k, i) ==
    IF i = 1 THEN bucketSize
    ELSE Min(bucketSize, tbHist[k][i - 1].stored
                         + Earned(tbHist[k][i].at - tbHist[k][i - 1].lastRefill))

\* C25: a token-bucket check with cost c, 1 <= c <= bucketSize, is allowed exactly
\* when the refilled balance is at least c; when allowed, the persisted tokens are
\* the refilled balance minus c and remaining is (the floor of) the persisted tokens.
C25_CostDecision ==
    \A k \in Keys : \A i \in 1..Len(tbHist[k]) :
        LET e == tbHist[k][i] IN
        (e.cost >= 1 /\ e.cost <= bucketSize) =>
            /\ e.allowed <=> RefilledBalance(k, i) >= e.cost
            /\ e.allowed => /\ e.stored = RefilledBalance(k, i) - e.cost
                            /\ e.remaining = e.stored
                            /\ bk[k].present
                            /\ i = Len(tbHist[k]) => bk[k].value.tokens = e.stored

\* an admitted cost-2 call after a refill, and a denied call that a refill did not cover
C25_Witness ==
    \E k \in Keys : \E i, j \in 2..Len(tbHist[k]) :
        /\ tbHist[k][i].allowed /\ tbHist[k][i].cost = 2
        /\ RefilledBalance(k, i) > tbHist[k][i - 1].stored
        /\ ~tbHist[k][j].allowed /\ tbHist[k][j].cost <= bucketSize

\* C26: a denied token-bucket check persists the refilled, unconsumed state: the
\* stored tokens equal the refilled balance and remaining is (the floor of) it.
C26_DeniedPersistsRefill ==
    \A k \in Keys : \A i \in 1..Len(tbHist[k]) :
        LET e == tbHist[k][i] IN
        ~e.allowed =>
            /\ e.stored = RefilledBalance(k, i)
            /\ e.remaining = RefilledBalance(k, i)
            /\ bk[k].present
            /\ i = Len(tbHist[k]) => bk[k].value.tokens = e.stored

\* a denied call that found tokens added since the previous call
C26_Witness ==
    \E k \in Keys : \E i \in 2..Len(tbHist[k]) :
        /\ ~tbHist[k][i].allowed
        /\ tbHist[k][i].stored > tbHist[k][i - 1].stored

\* C27: a denied token-bucket check with cost c <= bucketSize returns resetAt = r such
\* that, with no other call of the key in between, the next check with the same cost
\* is allowed when made at r (or later) and denied when made before r.
C27_ResetAtIsEarliest ==
    \A k \in Keys : \A i \in 1..(Len(tbHist[k]) - 1) :
        LET e == tbHist[k][i]
            n == tbHist[k][i + 1]
        IN  (~e.allowed /\ e.cost >= 1 /\ e.cost <= bucketSize /\ n.cost = e.cost) =>
                /\ e.hasResetAt
                /\ n.at >= e.resetAt => n.allowed
                /\ n.at < e.resetAt => ~n.allowed

(***************************************************************************)
(* What the stored timestamps stand for.  A check is made either by        *)
(* isAllowed over store.get / store.set (limiter = "sliding") or through   *)
(* the store's atomic window primitive (limiter = "atomic"): the caller    *)
(* passes (key, now, now - windowSize, windowSize), gets {count} back and  *)
(* admits the call when count <= maxRequests.                              *)
(***************************************************************************)
\* the verdict of a caller of atomicIncrement on the count it returns
AtomicVerdict(count, M) == count <= M

InitStored ==
    /\ impl \in Impls
    /\ limiter \in {"sliding", "atomic"}
    /\ wasReset = [k \in Keys |-> FALSE]
    /\ mw = NoRequest
    /\ conn = NoConnection
    /\ maxRequests \in MaxRequestsOptions
    /\ windowSize \in WindowSizeOptions
    /\ now = 0
    /\ kv = [k \in Keys |-> NoDoc]
    /\ swHist = [k \in Keys |-> <<>>]
    /\ MemIdle
    /\ ConcIdle
    /\ BucketIdle

\* a check through store.atomicIncrement(key, now, now - windowSize, windowSize)
AtomicCheck(k) ==
    /\ Len(swHist[k]) < MaxCalls
    /\ LET ts    == MemIncremented(timestamps[k], now, now - windowSize)
           count == MemCount(ts)
       IN  /\ timestamps' = [timestamps EXCEPT ![k] = ts]
           /\ swHist' = [swHist EXCEPT ![k] =
                            Append(@, [at |-> now, allowed |-> AtomicVerdict(count, maxRequests),
                                       remaining |-> Max(0, maxRequests - count),
                                       oldest |-> 0, resetAt |-> 0, hasResetAt |-> FALSE,
                                       retryAfter |-> 0, hasRetryAfter |-> FALSE])]
    /\ UNCHANGED <<cfgVars, ghostVars, mwVars, connVars, now, kv, locks, buckets, concVars, tbVars>>

NextStored ==
    \/ \E k \in Keys : limiter = "sliding" /\ SWCheck(k)
    \/ \E k \in Keys : limiter = "atomic" /\ AtomicCheck(k)
    \/ Tick

SpecStored == InitStored /\ [][NextStored]_vars

\* the timestamps the store holds for key k
StoredTimestamps(k) ==
    IF limiter = "sliding" THEN StoreGet(kv, k, now).value ELSE timestamps[k]

\* the checks of key k that were admitted inside the window that ends now
AdmittedNow(k) ==
    {i \in 1..Len(swHist[k]) : swHist[k][i].allowed /\ swHist[k][i].at > now - windowSize}

\* C23: every stored timestamp of a sliding-window key stands for one admitted call:
\* after any sequence of checks the number of stored timestamps inside the window
\* equals the number of calls admitted inside the window (a denied check adds none),
\* for isAllowed and for checks made through atomicIncrement.
C23_StoredAreAdmitted ==
    \A k \in Keys :
        Cardinality(InWindow(StoredTimestamps(k), now)) = Cardinality(AdmittedNow(k))

(***************************************************************************)
(* The stored bucket record under a clock that can be set back.  A check   *)
(* is made either by TokenBucketLimiter.isAllowed (limiter = "bucket",     *)
(* whole tokens) or by store.atomicTokenBucket(key, now, bucketSize,       *)
(* refillRate, cost) (limiter = "atomic", tokens in thousandths).          *)
(***************************************************************************)
PositiveCosts == {c \in Costs : c >= 1}

InitBuckets ==
    /\ impl \in Impls
    /\ limiter \in {"bucket", "atomic"}
    /\ wasReset = [k \in Keys |-> FALSE]
    /\ mw = NoRequest
    /\ conn = NoConnection
    /\ maxRequests = 1
    /\ windowSize = 1
    /\ now = 0
    /\ kv = [k \in Keys |-> NoDoc]
    /\ swHist = [k \in Keys |-> <<>>]
    /\ MemIdle
    /\ ConcIdle
    /\ bucketSize \in BucketSizeOptions
    /\ refillRate \in RefillRateOptions
    /\ refillInterval = IndexRefillInterval(refillRate)
    /\ bk = [k \in Keys |-> NoDoc]
    /\ tbHist = [k \in Keys |-> <<>>]
    /\ status = NoStatus

\* store.atomicTokenBucket(key, now, bucketSize, refillRate, cost) by one caller
AtomicBucket(k, cost) ==
    /\ Len(tbHist[k]) < MaxBucketCalls
    /\ LET r == MemBucketUpdated(buckets[k], now, bucketSize, refillRate, cost)
       IN  /\ buckets' = [buckets EXCEPT ![k] = r.bucket]
           /\ tbHist' = [tbHist EXCEPT ![k] =
                            Append(@, [at |-> now, cost |-> cost, allowed |-> r.allowed,
                                       remaining |-> r.bucket.tokens, hasReason |-> FALSE,
                                       refilled |-> IF r.allowed
                                                    THEN r.bucket.tokens + Thousandths(cost)
                                                    ELSE r.bucket.tokens,
                                       stored |-> r.bucket.tokens,
                                       lastRefill |-> r.bucket.lastRefill,
                                       resetAt |-> 0, hasResetAt |-> FALSE,
                                       retryAfter |-> 0, hasRetryAfter |-> FALSE])]
    /\ UNCHANGED <<cfgVars, ghostVars, mwVars, connVars, now, swVars, timestamps, locks, concVars,
                   bucketSize, refillRate, refillInterval, bk, status>>

\* Date.now() is the wall clock: an adjustment sets it back
ClockSetBack ==
    /\ now >= Quarter
    /\ now' = now - Quarter
    /\ UNCHANGED <<cfgVars, ghostVars, mwVars, connVars, swVars, memVars, concVars, tbVars>>

NextBuckets ==
    \/ \E k \in Keys : \E cost \in PositiveCosts : limiter = "bucket" /\ TBCheck(k, cost)
    \/ \E k \in Keys : \E cost \in PositiveCosts : limiter = "atomic" /\ AtomicBucket(k, cost)
    \/ TickTB
    \/ ClockSetBack

SpecBuckets == InitBuckets /\ [][NextBuckets]_vars

\* one token in the unit of the stored balance
TokenUnit == IF limiter = "bucket" THEN 1 ELSE Thousandths(1)

\* the credit call i of key k computes from the record left by call i - 1
CreditOf(k, i) ==
    LET elapsed == tbHist[k][i].at - tbHist[k][i - 1].lastRefill
    IN  IF limiter = "bucket" THEN Earned(elapsed) ELSE elapsed * refillRate

\* C28: a token-bucket check or atomic bucket update in which no token is added
\* leaves the stored lastRefill unchanged: lastRefill moves only in calls that add
\* tokens.
C28_LastRefillOnlyOnRefill ==
    \A k \in Keys : \A i \in 2..Len(tbHist[k]) :
        CreditOf(k, i) <= 0 => tbHist[k][i].lastRefill = tbHist[k][i - 1].lastRefill

\* C29: a check or atomic bucket update never lowers the stored balance, except by
\* the cost of an admitted request; also when now is earlier than the stored lastRefill.
C29_RefillMonotonic ==
    \A k \in Keys : \A i \in 2..Len(tbHist[k]) :
        tbHist[k][i].stored >=
            tbHist[k][i - 1].stored
            - (IF tbHist[k][i].allowed THEN tbHist[k][i].cost * TokenUnit ELSE 0)

(***************************************************************************)
(* Polling a drained bucket: the first call takes the whole bucket, the    *)
(* later calls ask for the whole bucket again and are denied while the     *)
(* balance stays below bucketSize.                                         *)
(***************************************************************************)
\* the longest run of the clock of this specification, in quarters of a second
MaxPollTicks == 4

PollBucketSizes == {3, 4}

InitPoll ==
    /\ impl \in Impls
    /\ limiter = "bucket"
    /\ wasReset = [k \in Keys |-> FALSE]
    /\ mw = NoRequest
    /\ conn = NoConnection
    /\ maxRequests = 1
    /\ windowSize = 1
    /\ now = 0
    /\ kv = [k \in Keys |-> NoDoc]
    /\ swHist = [k \in Keys |-> <<>>]
    /\ MemIdle
    /\ ConcIdle
    /\ bucketSize \in PollBucketSizes
    /\ refillRate \in RefillRateOptions
    /\ refillInterval = IndexRefillInterval(refillRate)
    /\ bk = [k \in Keys |-> NoDoc]
    /\ tbHist = [k \in Keys |-> <<>>]
    /\ status = NoStatus

\* isAllowed(key, bucketSize)
PollCheck(k) == TBCheck(k, bucketSize)

TickPoll ==
    /\ now < MaxPollTicks * Quarter
    /\ now' = now + Quarter
    /\ UNCHANGED <<cfgVars, ghostVars, mwVars, connVars, swVars, memVars, concVars, tbVars>>

NextPoll ==
    \/ \E k \in Keys : PollCheck(k)
    \/ TickPoll

SpecPoll == InitPoll /\ [][NextPoll]_vars

\* C30: the tokens credited do not depend on polling: for a bucket drained by its
\* first call at t0 and staying below bucketSize, the balance a later call at t
\* leaves is floor((t - t0) / tickLength) tokens, however many denied checks were
\* made in between and whenever they were made.
C30_CreditIgnoresPolling ==
    \A k \in Keys : \A i \in 2..Len(tbHist[k]) :
        LET due == Earned(tbHist[k][i].at - tbHist[k][1].at)
        IN  (due < bucketSize /\ \A j \in 2..i : ~tbHist[k][j].allowed) =>
                tbHist[k][i].stored = tbHist[k][1].stored + due

(***************************************************************************)
(* The exit paths of atomicIncrement / atomicTokenBucket.  The body of the *)
(* try block either runs to its return or throws before its write; the     *)
(* finally block runs _releaseLock(key) on both paths.                      *)
(***************************************************************************)
\* lines 172-174, called from the finally blocks (lines 192-194 and 226-228)
FinallyMutSkipped(l, k) == l

Finally(l, k) == [l EXCEPT ![k] = FALSE]

\* the try block of the call of p throws: nothing is written, the finally releases
CriticalThrows(p) ==
    /\ pc[p] = "locked"
    /\ locks' = Finally(locks, call[p].key)
    /\ pc' = [pc EXCEPT ![p] = "failed"]
    /\ UNCHANGED <<cfgVars, ghostVars, mwVars, connVars, now, swVars, timestamps, buckets,
                   pend, res, call, tbVars>>

NextLockExit ==
    \/ \E p \in Procs : Acquire(p)
    \/ \E p \in Procs : Wake(p)
    \/ \E p \in Procs : Critical(p)
    \/ \E p \in Procs : CriticalThrows(p)

\* the concurrent calls are all made on one key; they are fired at one instant, where
\* the window size plays no part, so the smallest one is taken
InitLockExit ==
    /\ InitLock
    /\ \A p, q \in Procs : call[p].key = call[q].key
    /\ \A w \in WindowSizeOptions : windowSize <= w

SpecLockExit == InitLockExit /\ [][NextLockExit]_vars

\* the calls that have returned or thrown
Exited == {p \in Procs : pc[p] \in {"done", "failed"}}

\* C32: the per-key lock is released on every exit path: a call that has returned
\* or thrown does not hold the lock of its key, i.e. the lock of a key is held
\* exactly while some call on that key is between its acquisition and its exit, so
\* a later caller on the key can acquire it.
C32_LockReleasedOnExit ==
    \A k \in LockKeys :
        locks[k] <=> \E q \in Procs \ Exited : pc[q] = "locked" /\ call[q].key = k

\* a call threw and a later caller of the same key holds the lock
C32_Witness ==
    \E p, q \in Procs :
        /\ pc[p] = "failed" /\ pc[q] = "locked"
        /\ call[p].key = call[q].key

\* the event loop runs every continuation that is ready and fires every timer: each
\* call that can take a step eventually takes one
SpecLockFair ==
    /\ SpecLockExit
    /\ \A p \in Procs :
          WF_vars(Acquire(p) \/ Wake(p) \/ Critical(p) \/ CriticalThrows(p))

\* C33: with finitely many concurrent callers of the atomic primitives and a fair
\* scheduler, every caller waiting in the spin-poll loop of the lock eventually
\* acquires the lock and its call completes.
C33_WaitersComplete ==
    \A p \in Procs : (pc[p] = "sleep") ~> (p \in Exited)

\* a caller is still waiting in the loop after two other callers of its key came
\* through the lock, one of which has returned
C33_Witness ==
    \E p, q, r \in Procs :
        /\ pc[p] = "sleep" /\ pc[q] = "done" /\ pc[r] = "locked"
        /\ call[p].key = call[q].key /\ call[p].key = call[r].key

(***************************************************************************)
(* C34: passive expiry of the window record (sequential callers, SpecSW).  *)
(***************************************************************************)
\* the admitted calls of key k since its last reset
AdmittedCalls(k) == {i \in 1..Len(swHist[k]) : swHist[k][i].allowed}

\* C34: the window record persisted by an allowed check carries a TTL of windowSize:
\* it expires windowSize after the last admitted call, store.get returns it until
\* that instant and absent after it, and a check made more than windowSize after the
\* last admitted call is decided as on a never-seen key (allowed, maxRequests - 1 left).
C34_RecordExpiresAfterWindow ==
    \A k \in Keys :
        /\ AdmittedCalls(k) # {} =>
              LET last == CHOOSE i \in AdmittedCalls(k) : \A j \in AdmittedCalls(k) : j <= i
                  due  == swHist[k][last].at + windowSize
              IN  /\ kv[k].present /\ kv[k].hasExpiry /\ kv[k].expiresAt = due
                  /\ StoreGet(kv, k, now).found <=> now <= due
                  /\ now > due =>
                        SlidingDecide(StoreGet(kv, k, now), now, windowSize, maxRequests)
                        = SlidingDecide(StoreGet([j \in Keys |-> NoDoc], k, now), now,
                                        windowSize, maxRequests)
        /\ \A i \in 2..Len(swHist[k]) :
              (\A j \in 1..(i - 1) :
                  swHist[k][j].allowed => swHist[k][j].at + windowSize < swHist[k][i].at)
              => swHist[k][i].allowed /\ swHist[k][i].remaining = maxRequests - 1

\* a key left alone for more than windowSize: its record has expired, and a later
\* check found it absent
C34_Witness ==
    \E k \in Keys : \E i \in 2..Len(swHist[k]) :
        /\ swHist[k][i - 1].allowed
        /\ swHist[k][i - 1].at + windowSize < swHist[k][i].at
        /\ swHist[k][i].allowed
        /\ now > kv[k].expiresAt
        /\ ~StoreGet(kv, k, now).found

(***************************************************************************)
(* The background cleanup of the in-memory store (the setInterval of the   *)
(* constructor).  The clock of this specification moves in half hours.     *)
(***************************************************************************)
\* line 265: const maxAge = 3600000
CleanupMaxAge == 3600000

HalfHour == CleanupMaxAge \div 2

\* the longest run of the clock, in half hours
MaxCleanupTicks == 4

\* windows of half an hour and of two hours
CleanupWindows == {HalfHour, 2 * CleanupMaxAge}

\* lines 267-273: the timestamps of a key that _cleanup keeps at instant t; a key
\* left with none is deleted, which reads back as the empty array
MemCleaned(ts, t) == SelectSeq(ts, LAMBDA x : t - x < CleanupMaxAge)

InitCleanup ==
    /\ impl = "index"
    /\ limiter = "sliding"
    /\ wasReset = [k \in Keys |-> FALSE]
    /\ mw = NoRequest
    /\ conn = NoConnection
    /\ maxRequests \in MaxRequestsOptions
    /\ windowSize \in CleanupWindows
    /\ now = 0
    /\ kv = [k \in Keys |-> NoDoc]
    /\ swHist = [k \in Keys |-> <<>>]
    /\ MemIdle
    /\ ConcIdle
    /\ BucketIdle

\* the timer fires: _cleanup()
MemCleanup ==
    /\ timestamps' = [k \in DOMAIN timestamps |-> MemCleaned(timestamps[k], now)]
    /\ UNCHANGED <<cfgVars, ghostVars, mwVars, connVars, now, swVars, locks, buckets, concVars, tbVars>>

TickHalfHour ==
    /\ now < MaxCleanupTicks * HalfHour
    /\ now' = now + HalfHour
    /\ UNCHANGED <<cfgVars, ghostVars, mwVars, connVars, swVars, memVars, concVars, tbVars>>

NextCleanup ==
    \/ \E k \in Keys : AtomicIncrement(k)
    \/ MemCleanup
    \/ TickHalfHour

SpecCleanup == InitCleanup /\ [][NextCleanup]_vars

\* the timestamps of ts that a check at instant t with the configured window counts
CountedAt(ts, t) == SelectSeq(ts, LAMBDA x : t - x < windowSize)

\* C35: the background cleanup never changes an admission decision: it never
\* deletes a timestamp that is still inside the window (now - ts < windowMs) of the
\* limiter using the store, whatever windowMs is configured.
C35_CleanupKeepsWindow ==
    [][MemCleanup =>
          \A k \in DOMAIN timestamps :
              CountedAt(timestamps'[k], now) = CountedAt(timestamps[k], now)]_vars

(***************************************************************************)
(* The counter-style in-memory store (memory.js 8-144): this.store maps a  *)
(* key to an entry [count, expiresAt].  kv holds the map (value = count)   *)
(* and swHist the calls made on each key: [op, at, ret].                   *)
(***************************************************************************)
\* lines 45-56 of get and line 65 of increment: the entry counts at instant t
CounterLive(e, t) == e.present /\ ~(t > e.expiresAt)

\* an increment that moves expiresAt of a live entry as well
CounterIncrementedMutExtends(e, t, windowMs) ==
    [present |-> TRUE, value |-> (IF CounterLive(e, t) THEN e.value ELSE 0) + 1,
     hasExpiry |-> TRUE, expiresAt |-> t + windowMs]

\* lines 63-75: the entry after increment(key, windowMs) at instant t
CounterIncremented(e, t, windowMs) ==
    IF CounterLive(e, t)
    THEN [e EXCEPT !.value = @ + 1]
    ELSE [present |-> TRUE, value |-> 1, hasExpiry |-> TRUE, expiresAt |-> t + windowMs]

\* get(key): returns 0 and deletes an entry found expired
CounterGet(k) ==
    /\ Len(swHist[k]) < MaxCalls
    /\ kv' = IF kv[k].present /\ now > kv[k].expiresAt THEN [kv EXCEPT ![k] = NoDoc] ELSE kv
    /\ swHist' = [swHist EXCEPT ![k] =
                     Append(@, [op |-> "get", at |-> now,
                                ret |-> IF CounterLive(kv[k], now) THEN kv[k].value ELSE 0])]
    /\ UNCHANGED <<cfgVars, ghostVars, mwVars, connVars, now, memVars, concVars, tbVars>>

\* increment(key, windowMs)
CounterIncrement(k) ==
    /\ Len(swHist[k]) < MaxCalls
    /\ LET e == CounterIncremented(kv[k], now, windowSize)
       IN  /\ kv' = [kv EXCEPT ![k] = e]
           /\ swHist' = [swHist EXCEPT ![k] =
                            Append(@, [op |-> "increment", at |-> now, ret |-> e.value])]
    /\ UNCHANGED <<cfgVars, ghostVars, mwVars, connVars, now, memVars, concVars, tbVars>>

\* reset(key)
CounterReset(k) ==
    /\ Len(swHist[k]) < MaxCalls
    /\ kv' = [kv EXCEPT ![k] = NoDoc]
    /\ swHist' = [swHist EXCEPT ![k] = Append(@, [op |-> "reset", at |-> now, ret |-> 0])]
    /\ UNCHANGED <<cfgVars, ghostVars, mwVars, connVars, now, memVars, concVars, tbVars>>

\* cleanup(): the timer of _connect deletes every entry with now > expiresAt
CounterCleanup ==
    /\ kv' = [k \in DOMAIN kv |->
                 IF kv[k].present /\ now > kv[k].expiresAt THEN NoDoc ELSE kv[k]]
    /\ UNCHANGED <<cfgVars, ghostVars, mwVars, connVars, now, swHist, memVars, concVars, tbVars>>

NextCounter ==
    \/ \E k \in Keys : CounterGet(k)
    \/ \E k \in Keys : CounterIncrement(k)
    \/ \E k \in Keys : CounterReset(k)
    \/ CounterCleanup
    \/ Tick

\* an empty map; the store takes windowMs from its caller and knows no limit
InitCounter ==
    /\ InitSW
    /\ impl = "index"
    /\ \A m \in MaxRequestsOptions : maxRequests <= m

SpecCounter == InitCounter /\ [][NextCounter]_vars

\* the entry of a key after the first n calls of history h, as the claim counts it
RECURSIVE CounterAfter(_, _)
CounterAfter(h, n) ==
    IF n = 0 THEN [present |-> FALSE, count |-> 0, expiresAt |-> 0]
    ELSE LET prev == CounterAfter(h, n - 1)
             live == prev.present /\ h[n].at <= prev.expiresAt
         IN  IF h[n].op = "reset" THEN [present |-> FALSE, count |-> 0, expiresAt |-> 0]
             ELSE IF h[n].op = "get" THEN prev
             ELSE IF live THEN [prev EXCEPT !.count = @ + 1]
             ELSE [present |-> TRUE, count |-> 1, expiresAt |-> h[n].at + windowSize]

\* C36: counter-style store, after any sequence of increment, get, reset and cleanup
\* calls: get returns 0 when the key has no entry or its entry has expired
\* (now > expiresAt) and otherwise the number of increments since the entry was
\* created; expiresAt is fixed when the entry is created and later increments do not
\* extend it; after reset the next get returns 0 and the next increment returns 1.
C36_CounterStore ==
    \A k \in Keys :
        LET h == swHist[k] IN
        /\ \A i \in 1..Len(h) :
              LET prev == CounterAfter(h, i - 1)
                  live == prev.present /\ h[i].at <= prev.expiresAt
              IN  /\ h[i].op = "get" => h[i].ret = IF live THEN prev.count ELSE 0
                  /\ h[i].op = "increment" => h[i].ret = CounterAfter(h, i).count
                  /\ (i > 1 /\ h[i - 1].op = "reset") =>
                        /\ h[i].op = "get" => h[i].ret = 0
                        /\ h[i].op = "increment" => h[i].ret = 1
        /\ LET e == CounterAfter(h, Len(h))
           IN  /\ kv[k].present => e.present /\ kv[k].expiresAt = e.expiresAt
               /\ now <= e.expiresAt => (kv[k].present <=> e.present)
               /\ (kv[k].present /\ now <= e.expiresAt) => kv[k].value = e.count

\* two increments at different instants share one entry, and a get made after the
\* entry's expiry, but within windowSize of the second increment, returns 0
C36_Witness ==
    \E k \in Keys : \E i \in 3..Len(swHist[k]) :
        LET h == swHist[k] IN
        /\ h[i - 2].op = "increment" /\ h[i - 2].ret = 1
        /\ h[i - 1].op = "increment" /\ h[i - 1].ret = 2 /\ h[i - 1].at > h[i - 2].at
        /\ h[i].op = "get" /\ h[i].ret = 0
        /\ h[i].at > h[i - 2].at + windowSize
        /\ h[i].at <= h[i - 1].at + windowSize

(***************************************************************************)
(* BaseStore.connect() / ensureConnection() (base.js 25-36, 70-74).  A     *)
(* call runs without interruption up to its await.  conn.promise is        *)
(* this.connectionPromise: "none" (null), or the promise of _connect,      *)
(* "pending", "fulfilled" or "rejected".  The caller that invoked _connect *)
(* awaits the promise; a caller that found the promise returns it, and its *)
(* own call settles after the reactions registered before it have run.     *)
(* ensureConnection awaits connect() and resumes one step after it.        *)
(***************************************************************************)
ConnOps == {"connect", "ensureConnection"}

\* line 29: if (this.connectionPromise)
ConnPendingMutNever(c) == FALSE

ConnPending(c) == c.promise # "none"

InitConn ==
    /\ impl = "index"
    /\ limiter = "sliding"
    /\ wasReset = [k \in Keys |-> FALSE]
    /\ mw = NoRequest
    /\ conn = NoConnection
    /\ maxRequests = 1
    /\ windowSize = 1
    /\ now = 0
    /\ kv = [k \in Keys |-> NoDoc]
    /\ swHist = [k \in Keys |-> <<>>]
    /\ MemIdle
    /\ pc = [p \in Procs |-> "start"]
    /\ pend = [p \in Procs |-> <<>>]
    /\ res = [p \in Procs |-> NoResult]
    /\ call \in [Procs -> [op : ConnOps, key : {ConcKey}]]
    /\ BucketIdle

\* where the call of p stands once its connect() has settled: a connect() call is
\* over, an ensureConnection() call (lines 70-74) has still to resume after its await
ConnSettled(p, ok) ==
    IF call[p].op = "connect" THEN (IF ok THEN "done" ELSE "failed")
    ELSE (IF ok THEN "returned" ELSE "threw")

\* the call of p starts and runs to its first await or to its return
ConnCall(p) ==
    /\ pc[p] = "start"
    /\ IF conn.connected
       THEN /\ pc' = [pc EXCEPT ![p] = "done"]
            /\ UNCHANGED conn
       ELSE IF ConnPending(conn)
       THEN /\ pc' = [pc EXCEPT ![p] = "joined"]
            /\ UNCHANGED conn
       ELSE /\ pc' = [pc EXCEPT ![p] = "awaiting"]
            /\ conn' = [conn EXCEPT !.promise = "pending", !.invoked = @ + 1]
    /\ UNCHANGED <<cfgVars, ghostVars, mwVars, now, swVars, memVars, pend, res, call, tbVars>>

\* the promise of _connect settles
ConnSettle(ok) ==
    /\ conn.promise = "pending"
    /\ conn' = IF ok THEN [conn EXCEPT !.promise = "fulfilled"]
               ELSE [conn EXCEPT !.promise = "rejected", !.failed = @ + 1]
    /\ UNCHANGED <<cfgVars, ghostVars, mwVars, now, swVars, memVars, concVars, tbVars>>

\* lines 33-35: the caller that invoked _connect resumes after its await
ConnResume(p) ==
    /\ pc[p] = "awaiting"
    /\ conn.promise \in {"fulfilled", "rejected"}
    /\ IF conn.promise = "fulfilled"
       THEN /\ conn' = [conn EXCEPT !.connected = TRUE, !.promise = "none"]
            /\ pc' = [pc EXCEPT ![p] = ConnSettled(p, TRUE)]
       ELSE /\ pc' = [pc EXCEPT ![p] = ConnSettled(p, FALSE)]
            /\ UNCHANGED conn
    /\ UNCHANGED <<cfgVars, ghostVars, mwVars, now, swVars, memVars, pend, res, call, tbVars>>

\* a call that returned the promise of _connect settles as that promise did
ConnJoinedSettles(p) ==
    /\ pc[p] = "joined"
    /\ conn.promise # "pending"
    /\ \A q \in Procs : pc[q] # "awaiting"
    /\ pc' = [pc EXCEPT ![p] = ConnSettled(p, conn.promise # "rejected")]
    /\ UNCHANGED <<cfgVars, ghostVars, mwVars, connVars, now, swVars, memVars,
                   pend, res, call, tbVars>>

\* line 72: ensureConnection resumes after `await this.connect()`
ConnEnsured(p) ==
    /\ pc[p] \in {"returned", "threw"}
    /\ pc' = [pc EXCEPT ![p] = IF pc[p] = "returned" THEN "done" ELSE "failed"]
    /\ UNCHANGED <<cfgVars, ghostVars, mwVars, connVars, now, swVars, memVars,
                   pend, res, call, tbVars>>

NextConn ==
    \/ \E p \in Procs : ConnCall(p)
    \/ \E ok \in BOOLEAN : ConnSettle(ok)
    \/ \E p \in Procs : ConnResume(p)
    \/ \E p \in Procs : ConnJoinedSettles(p)
    \/ \E p \in Procs : ConnEnsured(p)

SpecConn == InitConn /\ [][NextConn]_vars

\* C37: for any interleaving of concurrent connect() / ensureConnection() calls on a
\* store that is not yet connected, _connect is invoked at most once (at most one
\* invocation that has not failed), and every call that completes does so only
\* after the connection has been established (connected = true).
C37_ConnectOnce ==
    /\ conn.invoked <= conn.failed + 1
    /\ \A p \in Procs : pc[p] \in {"returned", "done"} => conn.connected

\* the connection stands after one _connect: the call that made it has completed
\* and a call that found the attempt in flight is about to
C37_Witness ==
    \E p, q \in Procs :
        /\ pc[p] = "done" /\ pc[q] = "joined"
        /\ conn.invoked = 1 /\ conn.connected

\* C38: a failed connection attempt is not sticky: after _connect has failed the
\* store is left not connected, and a later connect() / ensureConnection() call
\* invokes _connect again.
C38_FailureNotSticky ==
    [][\A p \in Procs :
          (/\ \E q \in Procs : pc[q] = "failed"
           /\ conn.promise = "rejected"
           /\ pc[p] = "start" /\ pc'[p] # "start") =>
              /\ ~conn.connected
              /\ conn'.invoked = conn.invoked + 1]_vars

====
